---- MODULE Spec2Model ----
(***************************************************************************)
(* A model of hyperspy/_signals/lazy.py: the chunk planner                 *)
(* (LazySignal._get_dask_chunks), the masked block iterator                *)
(* (LazySignal._block_iterator), the incremental decomposition pipeline    *)
(* (LazySignal.decomposition) and the loading reshuffle                    *)
(* (_reshuffle_mixed_blocks).                                              *)
(*                                                                         *)
(* Arrays are modelled by their shape and, where the order of the elements *)
(* matters, by their elements in row-major order.  The chunked-array       *)
(* engine, the axes manager and the estimators are modelled at their       *)
(* interface only.                                                         *)
(***************************************************************************)
EXTENDS Integers, Sequences, FiniteSets, TLC

(***************************************************************************)
(* Bounds of the model.                                                    *)
(***************************************************************************)
\* the largest number of array dimensions the chunk planner is given
MaxDims == 3
\* the planner is given arrays of at most this many bytes
MaxArrayBytes == 2000000000
\* the largest number of navigation dimensions of a chunk grid
MaxNavDims == 2
\* the largest number of chunks along one navigation dimension
MaxChunksPerDim == 2
\* the largest length of one navigation chunk
MaxChunkLen == 2
\* the largest output_dimension
MaxOutputDimension == 2
\* the largest number of navigation points of a signal that is iterated
MaxNavPoints == 4
\* the largest number of signal points of a signal that is iterated
MaxSigSize == 2
\* signal dimensions of a mapped signal, and of what the mapped function returns
MaxSigDims == 2
MaxOutDims == 3
\* lazy signals that share one backing file
MaxViews == 2

(***************************************************************************)
(* Program constants.                                                      *)
(***************************************************************************)
\* 100. * 2.**20, the target block footprint in bytes
BlockBudgetBytes == 104857600

(***************************************************************************)
(* Sequences and numbers.                                                  *)
(***************************************************************************)
\* hyperspy.misc.utils.multiply: the product of the elements, 1 when empty
RECURSIVE multiply(_)
multiply(s) ==
    IF Len(s) = 0 THEN 1 ELSE Head(s) * multiply(Tail(s))

\* the builtin sum
RECURSIVE SeqSum(_)
SeqSum(s) ==
    IF Len(s) = 0 THEN 0 ELSE Head(s) + SeqSum(Tail(s))

\* the builtin max of a non-empty sequence
RECURSIVE SeqMax(_)
SeqMax(s) ==
    IF Len(s) = 1 THEN Head(s)
    ELSE LET m == SeqMax(Tail(s)) IN IF Head(s) >= m THEN Head(s) ELSE m

\* the builtin min of a non-empty sequence
RECURSIVE SeqMin(_)
SeqMin(s) ==
    IF Len(s) = 1 THEN Head(s)
    ELSE LET m == SeqMin(Tail(s)) IN IF Head(s) <= m THEN Head(s) ELSE m

\* np.ceil(a / b) for positive b
CeilDiv(a, b) == (a + b - 1) \div b

\* the product of the elements, computed without exceeding cap + 1
RECURSIVE CappedProduct(_, _)
CappedProduct(s, cap) ==
    IF Len(s) = 0 THEN 1
    ELSE LET rest == CappedProduct(Tail(s), cap)
         IN  IF rest > cap \div Head(s) THEN cap + 1 ELSE Head(s) * rest

\* the sub-sequence of s at the positions in idx (a strictly increasing sequence)
Pick(s, idx) == [k \in 1..Len(idx) |-> s[idx[k]]]

\* the elements of the set of naturals S in increasing order
RECURSIVE SortedSeq(_)
SortedSeq(S) ==
    IF S = {} THEN <<>>
    ELSE LET m == CHOOSE x \in S : \A y \in S : x <= y
         IN  <<m>> \o SortedSeq(S \ {m})

(***************************************************************************)
(* ChunkPlanner: LazySignal._get_dask_chunks                               *)
(***************************************************************************)
VARIABLES
    gdc_pc,            \* position in _get_dask_chunks
    dc_shape,          \* self.data.shape
    dc_itemsize,       \* self.data.dtype.itemsize
    dtype_arg,         \* the dtype argument: <<>> for None, <<itemsize>> otherwise
    need_axes,         \* index_in_array of the axes that must not be split
    num_that_fit,      \* local num_that_fit
    gdc_sizes,         \* local sizes
    gdc_indices,       \* local indices
    gdc_chunks         \* the returned chunks (<<>> before the return)

gdcVars == <<gdc_pc, dc_shape, dc_itemsize, dtype_arg, need_axes,
             num_that_fit, gdc_sizes, gdc_indices, gdc_chunks>>

\* axis lengths and element sizes the planner is exercised with
AxisSizes == {1, 2, 3, 7, 64, 2048, 4096}
ItemSizes == {1, 8, 16}

\* typesize = max(dtype.itemsize, dc.dtype.itemsize), dtype defaulting to dc.dtype
typesize(dtype, itemsize) ==
    LET d == IF dtype = <<>> THEN itemsize ELSE dtype[1]
    IN  IF d >= itemsize THEN d ELSE itemsize

\* want_to_keep = multiply([ax.size for ax in need_axes]) * typesize
want_to_keep(shape, need, dtype, itemsize) ==
    multiply(Pick(shape, SortedSeq(need))) * typesize(dtype, itemsize)

\* int(100. * 2.**20 / want_to_keep)
NumThatFit(wtk) == BlockBudgetBytes \div wtk

\* np.argmax: the first position of the largest element
argmax(s) == CHOOSE i \in 1..Len(s) :
    /\ \A j \in 1..Len(s) : s[j] <= s[i]
    /\ \A j \in 1..(i - 1) : s[j] < s[i]

\* the section lengths of np.array_split(np.arange(n), sections)
array_split_lens(n, sections) ==
    [k \in 1..sections |->
        IF k <= n % sections THEN (n \div sections) + 1 ELSE n \div sections]

\* the degenerate chunks without line 247: the kept axes cut like the others
DegenerateChunks_KeptAxesCut(shape, need) ==
    [i \in 1..Len(shape) |-> [k \in 1..shape[i] |-> 1]]

DegenerateChunks_FreeAxesWhole(shape, need) ==
    [i \in 1..Len(shape) |-> <<shape[i]>>]

\* the chunks returned when fewer than two slices fit (lines 245-248)
DegenerateChunks(shape, need) ==
    [i \in 1..Len(shape) |->
        IF i \in need THEN <<shape[i]>> ELSE [k \in 1..shape[i] |-> 1]]

\* the number of sections rounded down instead of up
SplitChunks_SectionsRoundedDown(shape, indices, sizes) ==
    [i \in 1..Len(shape) |->
        IF \E k \in 1..Len(indices) : indices[k] = i
        THEN LET k == CHOOSE k \in 1..Len(indices) : indices[k] = i
             IN  array_split_lens(shape[i], shape[i] \div sizes[k])
        ELSE <<shape[i]>>]

\* the chunks built from the halved sizes (lines 264-274)
SplitChunks(shape, indices, sizes) ==
    [i \in 1..Len(shape) |->
        IF \E k \in 1..Len(indices) : indices[k] = i
        THEN LET k == CHOOSE k \in 1..Len(indices) : indices[k] = i
             IN  array_split_lens(shape[i], CeilDiv(shape[i], sizes[k]))
        ELSE <<shape[i]>>]

\* the loop condition stopping one halving early
HalvingDone_OneHalvingEarly(sizes, fit) == multiply(sizes) <= 2 * fit

\* the condition that ends the halving loop (line 259)
HalvingDone(sizes, fit) == multiply(sizes) <= fit

\* the halving applied to the smallest size instead of the largest
Halve_TheSmallest(sizes) ==
    LET i == CHOOSE i \in 1..Len(sizes) : \A j \in 1..Len(sizes) : sizes[i] <= sizes[j]
    IN  [sizes EXCEPT ![i] = sizes[i] \div 2]

\* one pass of the halving loop body (lines 262-263)
Halve(sizes) ==
    LET i == argmax(sizes) IN [sizes EXCEPT ![i] = sizes[i] \div 2]

\* the arrays the planner is called on: positive sizes, within MaxArrayBytes
GdcInputs ==
    {in \in [shape : UNION {[1..n -> AxisSizes] : n \in 1..MaxDims},
             itemsize : ItemSizes,
             dtype : {<<>>} \cup {<<s>> : s \in ItemSizes}] :
        CappedProduct(in.shape, MaxArrayBytes \div 16) * 16 <= MaxArrayBytes}

GdcInit ==
    /\ gdc_pc = "entry"
    /\ \E in \in GdcInputs :
        /\ dc_shape = in.shape
        /\ dc_itemsize = in.itemsize
        /\ dtype_arg = in.dtype
        /\ need_axes \in SUBSET (1..Len(in.shape))
    /\ num_that_fit = 0
    /\ gdc_sizes = <<>>
    /\ gdc_indices = <<>>
    /\ gdc_chunks = <<>>

\* lines 220-256: the budget, the degenerate return, the free axes
get_dask_chunks_entry ==
    /\ gdc_pc = "entry"
    /\ LET fit == NumThatFit(want_to_keep(dc_shape, need_axes, dtype_arg, dc_itemsize))
           free == SortedSeq((1..Len(dc_shape)) \ need_axes)
       IN  /\ num_that_fit' = fit
           /\ IF fit < 2
              THEN /\ gdc_chunks' = DegenerateChunks(dc_shape, need_axes)
                   /\ gdc_pc' = "returned_degenerate"
                   /\ UNCHANGED <<gdc_sizes, gdc_indices>>
              ELSE /\ gdc_sizes' = Pick(dc_shape, free)
                   /\ gdc_indices' = free
                   /\ gdc_pc' = "halving"
                   /\ UNCHANGED gdc_chunks
    /\ UNCHANGED <<dc_shape, dc_itemsize, dtype_arg, need_axes>>

\* lines 258-263: one iteration of the halving loop that does not break
get_dask_chunks_halve ==
    /\ gdc_pc = "halving"
    /\ ~HalvingDone(gdc_sizes, num_that_fit)
    /\ gdc_sizes' = Halve(gdc_sizes)
    /\ UNCHANGED <<gdc_pc, dc_shape, dc_itemsize, dtype_arg, need_axes,
                   num_that_fit, gdc_indices, gdc_chunks>>

\* lines 259-260, 264-274: the loop breaks and the chunks are built
get_dask_chunks_split ==
    /\ gdc_pc = "halving"
    /\ HalvingDone(gdc_sizes, num_that_fit)
    /\ gdc_chunks' = SplitChunks(dc_shape, gdc_indices, gdc_sizes)
    /\ gdc_pc' = "returned"
    /\ UNCHANGED <<dc_shape, dc_itemsize, dtype_arg, need_axes,
                   num_that_fit, gdc_sizes, gdc_indices>>

\* the planner is not in use
GdcIdle ==
    /\ gdc_pc = "idle"
    /\ dc_shape = <<>>
    /\ dc_itemsize = 1
    /\ dtype_arg = <<>>
    /\ need_axes = {}
    /\ num_that_fit = 0
    /\ gdc_sizes = <<>>
    /\ gdc_indices = <<>>
    /\ gdc_chunks = <<>>

gdc_returned == gdc_pc \in {"returned", "returned_degenerate"}

(***************************************************************************)
(* Navigation grid: chunk tuples, blocks and their points.                 *)
(* A navigation point is named by its position in the flattened (row-major)*)
(* navigation space, counted from 0.                                       *)
(***************************************************************************)
\* a cartesian product in which the first sequence varies fastest
RECURSIVE product_FirstFastest(_)
product_FirstFastest(ss) ==
    IF Len(ss) = 0 THEN << <<>> >>
    ELSE LET rest == product_FirstFastest(Tail(ss))
             h == Head(ss)
         IN  [k \in 1..(Len(h) * Len(rest)) |->
                <<h[((k - 1) % Len(h)) + 1]>> \o rest[((k - 1) \div Len(h)) + 1]]

\* itertools.product of a sequence of sequences: the last one varies fastest
RECURSIVE product(_)
product(ss) ==
    IF Len(ss) = 0 THEN << <<>> >>
    ELSE LET rest == product(Tail(ss))
             h == Head(ss)
         IN  [k \in 1..(Len(h) * Len(rest)) |->
                <<h[((k - 1) \div Len(rest)) + 1]>> \o rest[((k - 1) % Len(rest)) + 1]]

\* range(n), as the sequence 0 .. n-1
range(n) == [k \in 1..n |-> k - 1]

\* the navigation shape described by the chunk tuples
NavShape(nav_chunks) == [d \in 1..Len(nav_chunks) |-> SeqSum(nav_chunks[d])]

\* product(*[range(len(c)) for c in nav_chunks]): the block index tuples (0-based)
BlockIndices(nav_chunks) ==
    product([d \in 1..Len(nav_chunks) |-> range(Len(nav_chunks[d]))])

\* product(*nav_chunks): the block shapes, in the same order
BlockShapes(nav_chunks) == product(nav_chunks)

\* the navigation points of the block with index tuple ind, in the row-major
\* order of the block
BlockPoints(nav_chunks, ind) ==
    LET shape == NavShape(nav_chunks)
        n == Len(nav_chunks)
        start(d) == SeqSum(SubSeq(nav_chunks[d], 1, ind[d]))
        coords == product([d \in 1..n |->
                    [k \in 1..nav_chunks[d][ind[d] + 1] |-> start(d) + k - 1]])
        stride(d) == multiply(SubSeq(shape, d + 1, n))
        flatpos(c) == SeqSum([d \in 1..n |-> c[d] * stride(d)])
    IN  [k \in 1..Len(coords) |-> flatpos(coords[k])]

\* concatenation of a sequence of sequences
RECURSIVE Flatten(_)
Flatten(ss) ==
    IF Len(ss) = 0 THEN <<>> ELSE Head(ss) \o Flatten(Tail(ss))

\* the navigation points in block order: block after block, each flattened
BlockOrder(nav_chunks) ==
    LET inds == BlockIndices(nav_chunks)
    IN  Flatten([k \in 1..Len(inds) |-> BlockPoints(nav_chunks, inds[k])])

(***************************************************************************)
(* numpy arrays and lists of arrays.                                       *)
(*   [kind |-> "array", shape, flat]   an ndarray, elements in row-major   *)
(*   [kind |-> "list", items]          a Python list of ndarrays           *)
(*   [kind |-> "ValueError"]           the call raised ValueError          *)
(***************************************************************************)
NdArray(shape, flat) == [kind |-> "array", shape |-> shape, flat |-> flat]
PyList(items) == [kind |-> "list", items |-> items]
RaisedValueError == [kind |-> "ValueError"]

\* ndarray.reshape(newshape), newshape without -1
reshape(ar, newshape) ==
    IF multiply(newshape) = Len(ar.flat)
    THEN NdArray(newshape, ar.flat)
    ELSE RaisedValueError

\* ndarray.reshape((-1, n))
reshape_rows(ar, n) ==
    IF Len(ar.flat) % n = 0
    THEN NdArray(<<Len(ar.flat) \div n, n>>, ar.flat)
    ELSE RaisedValueError

\* np.split(array, splits) of a 2-D array along axis 0: the pieces
\* [0:s1], [s1:s2], ..., [sn:], each clipped to the array
np_split(ar, splits) ==
    LET rows == ar.shape[1]
        cols == ar.shape[2]
        clip(x) == IF x > rows THEN rows ELSE x
        lo(k) == IF k = 1 THEN 0 ELSE clip(splits[k - 1])
        hi(k) == IF k = Len(splits) + 1 THEN rows ELSE clip(splits[k])
    IN  [k \in 1..(Len(splits) + 1) |->
            NdArray(<<hi(k) - lo(k), cols>>,
                    SubSeq(ar.flat, lo(k) * cols + 1, hi(k) * cols))]

\* np.cumsum
cumsum(s) == [k \in 1..Len(s) |-> SeqSum(SubSeq(s, 1, k))]

\* len(what) of a list or an ndarray
PyLen(what) ==
    IF what.kind = "list" THEN Len(what.items) ELSE what.shape[1]

\* a list or an ndarray read as a sequence of arrays: an ndarray is the
\* sequence of its sub-arrays along the first axis
AsSequence(what) ==
    IF what.kind = "list" THEN what.items
    ELSE LET sub == Tail(what.shape)
             n == multiply(sub)
         IN  [k \in 1..what.shape[1] |->
                NdArray(sub, SubSeq(what.flat, (k - 1) * n + 1, k * n))]

\* what[i:i + step], read as a sequence of arrays
PySlice(what, i, step) ==
    LET total == PyLen(what)
        stop == IF i + step > total THEN total ELSE i + step
    IN  SubSeq(AsSequence(what), i + 1, stop)

\* whether np.concatenate accepts the arrays: at least one, none 0-d, the axis
\* within their rank, and equal shapes outside the axis
Concatenable(items, axis) ==
    /\ Len(items) > 0
    /\ \A k \in 1..Len(items) :
        /\ Len(items[k].shape) > axis
        /\ Len(items[k].shape) = Len(items[1].shape)
        /\ \A d \in 1..Len(items[1].shape) :
            d # axis + 1 => items[k].shape[d] = items[1].shape[d]

\* np.concatenate(items, axis=axis)
concatenate(items, axis) ==
    IF ~Concatenable(items, axis) THEN RaisedValueError
    ELSE LET s1 == items[1].shape
             outer == multiply(SubSeq(s1, 1, axis))
             inner == multiply(SubSeq(s1, axis + 2, Len(s1)))
             slab(k, o) == SubSeq(items[k].flat,
                                  (o - 1) * items[k].shape[axis + 1] * inner + 1,
                                  o * items[k].shape[axis + 1] * inner)
             along == SeqSum([k \in 1..Len(items) |-> items[k].shape[axis + 1]])
         IN  NdArray([s1 EXCEPT ![axis + 1] = along],
                     Flatten([o \in 1..outer |->
                        Flatten([k \in 1..Len(items) |-> slab(k, o)])]))

(***************************************************************************)
(* _reshuffle_mixed_blocks                                                 *)
(***************************************************************************)
\* splits = np.cumsum([multiply(ar) for ar in product(*nav_chunks)][:-1])
reshuffle_splits(nav_chunks) ==
    LET sizes == [k \in 1..Len(BlockShapes(nav_chunks)) |->
                    multiply(BlockShapes(nav_chunks)[k])]
    IN  cumsum(SubSeq(sizes, 1, Len(sizes) - 1))

\* all_chunks: every piece of the split reshaped to its block shape + sshape
\* (lines 1222-1226)
all_chunks_of(array, sshape, nav_chunks) ==
    LET shapes == BlockShapes(nav_chunks)
        pieces == np_split(array, reshuffle_splits(nav_chunks))
        blocks == [k \in 1..Len(shapes) |-> reshape(pieces[k], shapes[k] \o sshape)]
    IN  IF \E k \in 1..Len(blocks) : blocks[k].kind = "ValueError"
        THEN RaisedValueError
        ELSE PyList(blocks)

\* split_stack_list(what, step, axis) (lines 1228-1237)
split_stack_list(what, step, axis) ==
    LET total == PyLen(what)
    IN  IF total # step
        THEN LET starts == {i \in 0..(total - 1) : i % step = 0}
                 groups == [g \in 1..Cardinality(starts) |->
                              concatenate(PySlice(what, (g - 1) * step, step), axis)]
             IN  IF \E g \in 1..Len(groups) : groups[g].kind = "ValueError"
                 THEN RaisedValueError
                 ELSE PyList(groups)
        ELSE concatenate(AsSequence(what), axis)

\* the loop of lines 1239-1241, from its k-th pass (k = 0 for the first):
\* zip(nav_chunks[::-1], range(ndim - 1, -1, -1))
RECURSIVE stack_levels(_, _, _, _)
stack_levels(what, nav_chunks, ndim, k) ==
    IF k >= Len(nav_chunks) \/ k >= ndim \/ what.kind = "ValueError" THEN what
    ELSE stack_levels(
            split_stack_list(what, Len(nav_chunks[Len(nav_chunks) - k]), ndim - 1 - k),
            nav_chunks, ndim, k + 1)

\* _reshuffle_mixed_blocks(array, ndim, sshape, nav_chunks)
reshuffle_mixed_blocks(array, ndim, sshape, nav_chunks) ==
    IF Len(reshuffle_splits(nav_chunks)) > 0
    THEN stack_levels(all_chunks_of(array, sshape, nav_chunks), nav_chunks, ndim, 0)
    ELSE array

\* _reshuffle_mixed_blocks(...).reshape((-1, output_dimension)) (lines 1075-1077):
\* a list has no reshape, which raises AttributeError
reshuffle_and_reshape(array, ndim, output_dimension, nav_chunks) ==
    LET r == reshuffle_mixed_blocks(array, ndim, <<output_dimension>>, nav_chunks)
    IN  IF r.kind = "list" THEN [kind |-> "AttributeError"]
        ELSE IF r.kind = "ValueError" THEN r
        ELSE reshape_rows(r, output_dimension)

(***************************************************************************)
(* The reshuffle of block-ordered loadings, pass by pass.                  *)
(***************************************************************************)
VARIABLES
    rs_pc,             \* position in _reshuffle_mixed_blocks and its caller
    rs_nav_chunks,     \* nav_chunks
    rs_output_dimension, \* output_dimension, sshape = (output_dimension,)
    rs_array,          \* the array argument
    rs_all_chunks,     \* local all_chunks
    rs_pass,           \* number of passes of the loop of line 1239 done
    rs_result,         \* the value returned, then reshaped by the caller
    rs_exc             \* the exception raised, "none" when none

rsVars == <<rs_pc, rs_nav_chunks, rs_output_dimension, rs_array,
            rs_all_chunks, rs_pass, rs_result, rs_exc>>

\* the chunk-length tuples of one dimension
ChunkTuples ==
    UNION {[1..n -> 1..MaxChunkLen] : n \in 1..MaxChunksPerDim}

\* the navigation chunk grids
NavChunkGrids ==
    UNION {[1..n -> ChunkTuples] : n \in 1..MaxNavDims}

\* the rows of loadings: row p holds the od numbers p*od .. p*od + od - 1
LoadingRows(points, od) ==
    NdArray(<<Len(points), od>>,
            Flatten([k \in 1..Len(points) |-> [c \in 1..od |-> points[k] * od + c - 1]]))

\* the loadings of all navigation points gathered block after block
ScatteredLoadings(nav_chunks, od) == LoadingRows(BlockOrder(nav_chunks), od)

\* the loadings in the flattened spatial navigation order
OrderedLoadings(nav_chunks, od) ==
    LoadingRows(range(multiply(NavShape(nav_chunks))), od)

RsInit ==
    /\ rs_pc = "call"
    /\ rs_nav_chunks \in NavChunkGrids
    /\ rs_output_dimension \in 1..MaxOutputDimension
    /\ \E rows \in 0..multiply(NavShape(rs_nav_chunks)) :
        rs_array = LoadingRows(SubSeq(BlockOrder(rs_nav_chunks), 1, rows),
                               rs_output_dimension)
    /\ rs_all_chunks = <<>>
    /\ rs_pass = 0
    /\ rs_result = <<>>
    /\ rs_exc = "none"

\* lines 1219-1226 and 1243-1244: split into blocks, or return the array as it is
reshuffle_begin ==
    /\ rs_pc = "call"
    /\ IF Len(reshuffle_splits(rs_nav_chunks)) > 0
       THEN LET chunks == all_chunks_of(rs_array, <<rs_output_dimension>>, rs_nav_chunks)
            IN  IF chunks.kind = "ValueError"
                THEN /\ rs_pc' = "raised"
                     /\ rs_exc' = "ValueError"
                     /\ UNCHANGED <<rs_all_chunks, rs_result>>
                ELSE /\ rs_pc' = "stack"
                     /\ rs_all_chunks' = chunks
                     /\ UNCHANGED <<rs_result, rs_exc>>
       ELSE /\ rs_pc' = "returned"
            /\ rs_result' = rs_array
            /\ UNCHANGED <<rs_all_chunks, rs_exc>>
    /\ UNCHANGED <<rs_nav_chunks, rs_output_dimension, rs_array, rs_pass>>

\* lines 1239-1241: one pass of the loop over the navigation dimensions
reshuffle_stack ==
    /\ rs_pc = "stack"
    /\ rs_pass < Len(rs_nav_chunks)
    /\ LET n == Len(rs_nav_chunks)
           r == split_stack_list(rs_all_chunks,
                                 Len(rs_nav_chunks[n - rs_pass]), n - 1 - rs_pass)
       IN  IF r.kind = "ValueError"
           THEN /\ rs_pc' = "raised"
                /\ rs_exc' = "ValueError"
                /\ UNCHANGED <<rs_all_chunks, rs_pass>>
           ELSE /\ rs_all_chunks' = r
                /\ rs_pass' = rs_pass + 1
                /\ UNCHANGED <<rs_pc, rs_exc>>
    /\ UNCHANGED <<rs_nav_chunks, rs_output_dimension, rs_array, rs_result>>

\* line 1242: return all_chunks
reshuffle_return ==
    /\ rs_pc = "stack"
    /\ rs_pass = Len(rs_nav_chunks)
    /\ rs_result' = rs_all_chunks
    /\ rs_pc' = "returned"
    /\ UNCHANGED <<rs_nav_chunks, rs_output_dimension, rs_array,
                   rs_all_chunks, rs_pass, rs_exc>>

\* line 1077: the caller's .reshape((-1, output_dimension)) of the value returned
reshuffle_reshape ==
    /\ rs_pc = "returned"
    /\ IF rs_result.kind = "list"
       THEN /\ rs_pc' = "raised"
            /\ rs_exc' = "AttributeError"
            /\ UNCHANGED rs_result
       ELSE LET r == reshape_rows(rs_result, rs_output_dimension)
            IN  IF r.kind = "ValueError"
                THEN /\ rs_pc' = "raised"
                     /\ rs_exc' = "ValueError"
                     /\ UNCHANGED rs_result
                ELSE /\ rs_pc' = "done"
                     /\ rs_result' = r
                     /\ UNCHANGED rs_exc
    /\ UNCHANGED <<rs_nav_chunks, rs_output_dimension, rs_array,
                   rs_all_chunks, rs_pass>>

\* the reshuffle is not in use
RsIdle ==
    /\ rs_pc = "idle"
    /\ rs_nav_chunks = <<>>
    /\ rs_output_dimension = 1
    /\ rs_array = <<>>
    /\ rs_all_chunks = <<>>
    /\ rs_pass = 0
    /\ rs_result = <<>>
    /\ rs_exc = "none"

(***************************************************************************)
(* MaskedBlockIterator: LazySignal._block_iterator                         *)
(*                                                                         *)
(* The signal has its navigation dimensions chunked as it_nav_chunks and,  *)
(* once its signal dimensions are flattened (line 735), one signal axis    *)
(* chunked as it_sig_chunks.  A mask is [type, val]: type "None",          *)
(* "ndarray", or "other" or "list" (neither a signal, a numpy array nor a  *)
(* dask array), val the set of the positions marked True.  Signal          *)
(* positions are counted from 0.                                           *)
(***************************************************************************)
VARIABLES
    it_pc,             \* the generator: idle, created, suspended, ended, raised
    it_nav_chunks,     \* data.chunks[:navigation_dimension]
    it_sig_chunks,     \* the chunks of the flattened signal axis
    it_flat_signal,    \* the flat_signal argument
    it_navigation_mask, \* the navigation_mask argument
    it_signal_mask,    \* the signal_mask argument
    it_pos,            \* how many index tuples the loop of line 767 consumed
    it_yielded,        \* the payloads yielded by the running generator
    it_first_run,      \* the payloads of the first generator that ran to its end
    it_runs,           \* how many generators were created
    it_computed,       \* how many chunk-groups were materialized (get, line 768)
    it_exc             \* the exception the generator raised, "none" when none

itVars == <<it_pc, it_nav_chunks, it_sig_chunks, it_flat_signal,
            it_navigation_mask, it_signal_mask, it_pos, it_yielded,
            it_first_run, it_runs, it_computed, it_exc>>

NoMask == [type |-> "None", val |-> {}]
ArrayMask(S) == [type |-> "ndarray", val |-> S]
OtherMask == [type |-> "other", val |-> {}]
ListMask == [type |-> "list", val |-> {}]

\* to_array(thing) / to_array(thing, chunks) raises ValueError (lines 65-84)
to_array_raises(mask) == mask.type \notin {"None", "ndarray"}

\* the signal positions held by the chunk with signal index 0 (line 769)
FirstSignalChunk(sig_chunks) == range(sig_chunks[1])

\* boolean-mask indexing: the elements of s at the places not marked in masked
RECURSIVE Unmasked(_, _)
Unmasked(s, masked) ==
    IF Len(s) = 0 THEN <<>>
    ELSE (IF Head(s) \in masked THEN <<>> ELSE <<Head(s)>>) \o Unmasked(Tail(s), masked)

\* a boolean index of a given length fits an axis of that length only
BooleanIndexFits(sig_chunks) == sig_chunks[1] = SeqSum(sig_chunks)

\* line 772: chunk[n_mask, ...][..., signal_mask] of the block ind
FlatPayload(nav_chunks, sig_chunks, navigation_mask, signal_mask, ind) ==
    LET points == BlockPoints(nav_chunks, ind)
        columns == FirstSignalChunk(sig_chunks)
    IN  IF signal_mask.type # "None" /\ ~BooleanIndexFits(sig_chunks)
        THEN [kind |-> "IndexError"]
        ELSE [kind |-> "payload",
              ind |-> ind,
              rows |-> Unmasked(points, navigation_mask.val),
              cols |-> Unmasked(columns, signal_mask.val),
              blank_rows |-> {},
              blank_cols |-> {}]

\* lines 774-779: the copy of the block with the masked places overwritten
DensePayload(nav_chunks, sig_chunks, navigation_mask, signal_mask, ind) ==
    LET points == BlockPoints(nav_chunks, ind)
        columns == FirstSignalChunk(sig_chunks)
    IN  IF ~BooleanIndexFits(sig_chunks)
        THEN [kind |-> "IndexError"]
        ELSE [kind |-> "payload",
              ind |-> ind,
              rows |-> points,
              cols |-> columns,
              blank_rows |-> {points[k] : k \in 1..Len(points)} \cap navigation_mask.val,
              blank_cols |-> {columns[k] : k \in 1..Len(columns)} \cap signal_mask.val]

\* what one pass of the loop of lines 767-779 yields for the block ind
BlockPayload(nav_chunks, sig_chunks, flat_signal, navigation_mask, signal_mask, ind) ==
    IF flat_signal
    THEN FlatPayload(nav_chunks, sig_chunks, navigation_mask, signal_mask, ind)
    ELSE DensePayload(nav_chunks, sig_chunks, navigation_mask, signal_mask, ind)

\* the chunk grids of the signals that are iterated: a navigation dimension
\* of length 1 has the one chunk index 0 (line 732) and is left out, except
\* for the signal with a single navigation point
IterGrids ==
    {g \in NavChunkGrids :
        /\ multiply(NavShape(g)) <= MaxNavPoints
        /\ Len(g) = 1 \/ \A d \in 1..Len(g) : SeqSum(g[d]) >= 2}
SigChunkTuples == {t \in ChunkTuples : SeqSum(t) <= MaxSigSize}

\* the masks over n positions
Masks(n) == {NoMask, OtherMask, ListMask} \cup {ArrayMask(S) : S \in SUBSET (0..(n - 1))}

ItInit ==
    /\ it_pc = "idle"
    /\ it_nav_chunks \in IterGrids
    /\ it_sig_chunks \in SigChunkTuples
    /\ it_flat_signal \in BOOLEAN
    /\ it_navigation_mask \in Masks(multiply(NavShape(it_nav_chunks)))
    /\ it_signal_mask \in Masks(SeqSum(it_sig_chunks))
    /\ it_pos = 0
    /\ it_yielded = <<>>
    /\ it_first_run = [set |-> FALSE, payloads |-> <<>>]
    /\ it_runs = 0
    /\ it_computed = 0
    /\ it_exc = "none"

\* the iterator is not in use
ItIdle ==
    /\ it_pc = "idle"
    /\ it_nav_chunks = <<>>
    /\ it_sig_chunks = <<>>
    /\ it_flat_signal = TRUE
    /\ it_navigation_mask = NoMask
    /\ it_signal_mask = NoMask
    /\ it_pos = 0
    /\ it_yielded = <<>>
    /\ it_first_run = [set |-> FALSE, payloads |-> <<>>]
    /\ it_runs = 0
    /\ it_computed = 0
    /\ it_exc = "none"

\* self._block_iterator(...) is called, on a signal never iterated or again
\* after a first generator ran to its end: a generator is created, none of
\* its body has run yet
block_iterator_call ==
    /\ it_pc = "idle" \/ (it_pc = "ended" /\ ~it_first_run.set)
    /\ it_pc' = "created"
    /\ it_runs' = it_runs + 1
    /\ it_pos' = 0
    /\ it_yielded' = <<>>
    /\ it_first_run' = IF it_pc = "ended" /\ ~it_first_run.set
                       THEN [set |-> TRUE, payloads |-> it_yielded]
                       ELSE it_first_run
    /\ UNCHANGED <<it_nav_chunks, it_sig_chunks, it_flat_signal,
                   it_navigation_mask, it_signal_mask, it_computed, it_exc>>

\* lines 745-748 and 761-764: the message of the ValueError raised again,
\* which names the mask and formats type(mask)
mask_error_message_NamesSignalMask(which, mask) ==
    "ValueError: signal_mask has to be a signal, numpy or dask array, but "
        \o mask.type \o " was given"

mask_error_message(which, mask) ==
    "ValueError: " \o which \o " has to be a signal, numpy or dask array, but "
        \o mask.type \o " was given"

\* the first next() finds a mask of a wrong type: lines 742-748 and 758-764
block_iterator_mask_error ==
    /\ it_pc = "created"
    /\ to_array_raises(it_signal_mask) \/ to_array_raises(it_navigation_mask)
    /\ it_pc' = "raised"
    /\ it_exc' = IF to_array_raises(it_signal_mask)
                 THEN mask_error_message("signal_mask", it_signal_mask)
                 ELSE mask_error_message("navigation_mask", it_navigation_mask)
    /\ UNCHANGED <<it_nav_chunks, it_sig_chunks, it_flat_signal,
                   it_navigation_mask, it_signal_mask, it_pos, it_yielded,
                   it_first_run, it_runs, it_computed>>

\* next(): the generator runs up to its next yield (lines 729-766 the first
\* time, then one pass of the loop of lines 767-779)
block_iterator_next ==
    /\ it_pc \in {"created", "suspended"}
    /\ it_pc = "created" =>
        ~(to_array_raises(it_signal_mask) \/ to_array_raises(it_navigation_mask))
    /\ it_pos < Len(BlockIndices(it_nav_chunks))
    /\ LET ind == BlockIndices(it_nav_chunks)[it_pos + 1]
           out == BlockPayload(it_nav_chunks, it_sig_chunks, it_flat_signal,
                               it_navigation_mask, it_signal_mask, ind)
       IN  /\ it_computed' = it_computed + 1
           /\ it_pos' = it_pos + 1
           /\ IF out.kind = "payload"
              THEN /\ it_yielded' = Append(it_yielded, out)
                   /\ it_pc' = "suspended"
                   /\ UNCHANGED it_exc
              ELSE /\ it_pc' = "raised"
                   /\ it_exc' = out.kind
                   /\ UNCHANGED it_yielded
    /\ UNCHANGED <<it_nav_chunks, it_sig_chunks, it_flat_signal,
                   it_navigation_mask, it_signal_mask, it_first_run, it_runs>>

\* next() after the last index tuple: the loop ends, StopIteration
block_iterator_stop ==
    /\ it_pc = "suspended"
    /\ it_pos = Len(BlockIndices(it_nav_chunks))
    /\ it_pc' = "ended"
    /\ UNCHANGED <<it_nav_chunks, it_sig_chunks, it_flat_signal,
                   it_navigation_mask, it_signal_mask, it_pos, it_yielded,
                   it_first_run, it_runs, it_computed, it_exc>>

(***************************************************************************)
(* LazySignal.decomposition                                                *)
(*                                                                         *)
(* The signal has its navigation dimensions chunked as dec_nav_chunks and  *)
(* one signal axis chunked as dec_sig_chunks.  self.data is modelled by    *)
(* the operations applied to the array the signal held when it was         *)
(* created: <<>> is that array itself.  None is <<>> and a number n is     *)
(* <<n>> for output_dimension and num_chunks.  A field of learning_results *)
(* is [by, val]: by is "unset" (never written), "earlier" (written by an   *)
(* earlier call) or "call" (written by the call in progress or just        *)
(* ended).  The estimators, dask's svd, unfold and fold are outside this   *)
(* file: a call into them may fail, which is the exception                 *)
(* ExternalFailure.                                                        *)
(***************************************************************************)
VARIABLES
    dec_pc,            \* position in decomposition
    dec_nav_chunks,    \* _al_data.chunks[:navigation_dimension]
    dec_sig_chunks,    \* the chunks of the signal axis
    dec_data,          \* self.data
    dec_is_unfolded,   \* whether the signal is unfolded
    dec_unfolded4decomposition, \* self._unfolded4decomposition
    dec_learning_results, \* self.learning_results
    dec_args,          \* the arguments, as the local names of the call
    dec_blocksize,     \* local blocksize
    dec_nblocks,       \* local nblocks
    dec_original_data, \* local original_data
    dec_coeffs,        \* whether raG and rbH are defined
    dec_obj,           \* the estimator obj
    dec_pos,           \* how many blocks the running block iterator yielded
    dec_this_data,     \* local this_data
    dec_H,             \* local H
    dec_results,       \* locals factors, loadings, explained_variance(_ratio)
    dec_exc,           \* the exception in flight or raised, "none" when none
    dec_snapshot,      \* the signal as it was when the call was made
    dec_computed,      \* how many materializations the call made
    dec_interrupted    \* the loops of the call that got a KeyboardInterrupt

decVars == <<dec_pc, dec_nav_chunks, dec_sig_chunks, dec_data, dec_is_unfolded,
             dec_unfolded4decomposition, dec_learning_results, dec_args,
             dec_blocksize, dec_nblocks, dec_original_data, dec_coeffs,
             dec_obj, dec_pos, dec_this_data, dec_H, dec_results, dec_exc,
             dec_snapshot, dec_computed, dec_interrupted>>

\* the exceptions decomposition raises or lets through
ErrOutputDimension == "ValueError: output_dimension must be specified"
ErrAlgorithm == "ValueError: algorithm not recognised"
ErrMaskedSVD == "NotImplementedError: Masking is not yet implemented for lazy SVD"
ErrConcatenate == "ValueError: need at least one array to concatenate"
ErrBroadcast == "ValueError: operands could not be broadcast together"
ExternalFailure == "exception raised outside this file"

\* line 866
algorithms_require_dimension_WithoutORNMF == {"PCA", "ORPCA"}
algorithms_require_dimension == {"PCA", "ORPCA", "ORNMF"}

\* the algorithm names the chain of lines 897-921 accepts
RecognisedAlgorithms == {"SVD", "PCA", "ORPCA", "ORNMF"}

\* lines 856-862: the deprecated name 'ONMF' stands for 'ORNMF'
DeprecatedAlias(algorithm) == IF algorithm = "ONMF" THEN "ORNMF" ELSE algorithm

\* line 879
default_num_chunks(num_chunks) == IF num_chunks = <<>> THEN 1 ELSE num_chunks[1]

\* line 880: the element count of the smallest navigation block
min_blocksize(nav_chunks) ==
    SeqMin([k \in 1..Len(BlockShapes(nav_chunks)) |->
                multiply(BlockShapes(nav_chunks)[k])])

\* line 881
count_blocks(nav_chunks) == multiply([d \in 1..Len(nav_chunks) |-> Len(nav_chunks[d])])

\* lines 883-884: for a positive output_dimension,
\* blocksize / output_dimension < num_chunks is blocksize < num_chunks * output_dimension
adjusted_num_chunks(num_chunks, blocksize, output_dimension) ==
    IF /\ output_dimension # <<>>
       /\ output_dimension[1] # 0
       /\ blocksize < num_chunks * output_dimension[1]
    THEN CeilDiv(blocksize, output_dimension[1])
    ELSE num_chunks

\* line 886
batch_blocksize(num_chunks, blocksize, output_dimension) ==
    blocksize * adjusted_num_chunks(num_chunks, blocksize, output_dimension)

\* line 1083, the finally clause of the try of line 924
finally_data_KeepsWorkingArray(original_data, data) == data
finally_data(original_data, data) == original_data

\* line 987
fold_needed(unfolded4decomposition) == unfolded4decomposition = "True"

\* the values of a field of learning_results
Unset == [by |-> "unset", val |-> <<>>]
Earlier == [by |-> "earlier", val |-> <<>>]
Written(v) == [by |-> "call", val |-> v]

LearningResultFields ==
    {"decomposition_algorithm", "output_dimension", "object", "factors",
     "loadings", "explained_variance", "explained_variance_ratio"}

\* learning_results of a signal that was never decomposed
NoLearningResults == [f \in LearningResultFields |-> Unset]

\* learning_results as a new call finds them
EarlierResults(results) ==
    [f \in LearningResultFields |->
        IF results[f].by = "unset" THEN Unset ELSE Earlier]

\* the locals of a call that has not assigned them
NoResults ==
    [factors |-> <<>>, loadings |-> <<>>,
     explained_variance |-> <<>>, explained_variance_ratio |-> <<>>]
NoObj == [algorithm |-> "None", fits |-> 0, rows |-> <<>>, cols |-> 0]
NoArgs ==
    [normalize_poissonian_noise |-> "False", algorithm |-> "SVD",
     output_dimension |-> <<>>, signal_mask |-> NoMask,
     navigation_mask |-> NoMask, num_chunks |-> <<>>, reproject |-> TRUE,
     reproject_given |-> TRUE]
NoOriginalData == [set |-> FALSE, ref |-> <<>>]

\* the signals that are decomposed
DecGrids ==
    { << <<1, 1>> >>, << <<1, 1>>, <<2>> >>, << <<2>>, <<1, 1>> >>,
      << <<2, 2, 2>> >> }
DecSigChunks == { <<3>>, <<1, 2>> }

\* the arguments of the calls
DecAlgorithms == RecognisedAlgorithms \cup {"ONMF", "NMF"}
DecOutputDimensions == {<<>>} \cup {<<n>> : n \in 1..MaxOutputDimension}
DecNormalize == {"False", "True", "1"}
DecMasks == {NoMask, ArrayMask({0})}
DecNumChunks == {<<>>, <<2>>}

\* the test of line 927 written as the identity test of line 1096
Truthy_OnlyTrue(normalize_poissonian_noise) == normalize_poissonian_noise = "True"

\* the PCA branch leaving reproject as the caller passed it
reproject_after_setup_AsGiven(algorithm, reproject) == reproject

\* lines 897-903: the PCA branch of the estimator setup sets reproject = True
reproject_after_setup(algorithm, reproject) ==
    IF algorithm = "PCA" THEN TRUE ELSE reproject

\* bool(normalize_poissonian_noise), line 927
Truthy(normalize_poissonian_noise) == normalize_poissonian_noise # "False"

\* a * b[:, np.newaxis] of an array of a rows by a vector of b elements:
\* whether the operands broadcast, and the number of rows of the product
BroadcastFits(a, b) == a = b \/ a = 1 \/ b = 1
BroadcastRows(a, b) == IF a = 1 THEN b ELSE a

\* method(chunk) in place of method(thedata): only the block just yielded
fit_OnlyTheLastBlock(obj, held) ==
    [obj EXCEPT !.fits = @ + 1,
                !.rows = @ \o held[Len(held)].rows,
                !.cols = Len(held[1].cols)]

\* obj.partial_fit / obj.fit of the concatenation of the held blocks
\* (lines 1008-1009 and 1012-1013)
fit(obj, held) ==
    [obj EXCEPT !.fits = @ + 1,
                !.rows = @ \o Flatten([k \in 1..Len(held) |-> held[k].rows]),
                !.cols = Len(held[1].cols)]

\* post(H): np.concatenate along the sample axis (lines 1036-1049)
post(H) == concatenate(H, 0)

\* the flush test written with > in place of ==
batch_full_WhenExceeded(held, num_chunks) == Len(held) > num_chunks

\* line 1007: len(this_data) == num_chunks
batch_full(held, num_chunks) == Len(held) = num_chunks

\* the block the running block iterator yields next
NextBlock ==
    FlatPayload(dec_nav_chunks, dec_sig_chunks, dec_args.navigation_mask,
                dec_args.signal_mask, BlockIndices(dec_nav_chunks)[dec_pos + 1])

DecInit ==
    /\ dec_pc = "idle"
    /\ dec_nav_chunks \in DecGrids
    /\ dec_sig_chunks \in DecSigChunks
    /\ dec_data = <<>>
    /\ dec_is_unfolded = FALSE
    /\ dec_unfolded4decomposition = "False"
    /\ dec_learning_results = NoLearningResults
    /\ dec_args = NoArgs
    /\ dec_blocksize = 0
    /\ dec_nblocks = 0
    /\ dec_original_data = NoOriginalData
    /\ dec_coeffs = FALSE
    /\ dec_obj = NoObj
    /\ dec_pos = 0
    /\ dec_this_data = <<>>
    /\ dec_H = <<>>
    /\ dec_results = NoResults
    /\ dec_exc = "none"
    /\ dec_snapshot = [data |-> <<>>, is_unfolded |-> FALSE,
                       learning_results |-> NoLearningResults]
    /\ dec_computed = 0
    /\ dec_interrupted = {}

\* no signal is being decomposed
DecIdle ==
    /\ dec_pc = "idle"
    /\ dec_nav_chunks = <<>>
    /\ dec_sig_chunks = <<>>
    /\ dec_data = <<>>
    /\ dec_is_unfolded = FALSE
    /\ dec_unfolded4decomposition = "False"
    /\ dec_learning_results = NoLearningResults
    /\ dec_args = NoArgs
    /\ dec_blocksize = 0
    /\ dec_nblocks = 0
    /\ dec_original_data = NoOriginalData
    /\ dec_coeffs = FALSE
    /\ dec_obj = NoObj
    /\ dec_pos = 0
    /\ dec_this_data = <<>>
    /\ dec_H = <<>>
    /\ dec_results = NoResults
    /\ dec_exc = "none"
    /\ dec_snapshot = [data |-> <<>>, is_unfolded |-> FALSE,
                       learning_results |-> NoLearningResults]
    /\ dec_computed = 0
    /\ dec_interrupted = {}

\* the call has ended
dec_ended == dec_pc \in {"returned", "raised"}

\* decomposition(...) is called on a signal at rest: lines 847-923
decomposition_call ==
    /\ dec_pc = "idle"
    /\ \E normalize_poissonian_noise \in DecNormalize, name \in DecAlgorithms,
          output_dimension \in DecOutputDimensions, signal_mask \in DecMasks,
          navigation_mask \in DecMasks, given_chunks \in DecNumChunks,
          reproject \in BOOLEAN :
        LET algorithm == DeprecatedAlias(name)
            blocksize == min_blocksize(dec_nav_chunks)
            num_chunks == adjusted_num_chunks(default_num_chunks(given_chunks),
                                              blocksize, output_dimension)
            exc == IF /\ algorithm \in algorithms_require_dimension
                      /\ output_dimension = <<>>
                   THEN ErrOutputDimension
                   ELSE IF algorithm \notin RecognisedAlgorithms
                   THEN ErrAlgorithm
                   ELSE "none"
        IN  /\ dec_args' =
                [normalize_poissonian_noise |-> normalize_poissonian_noise,
                 algorithm |-> algorithm,
                 output_dimension |-> output_dimension,
                 signal_mask |-> signal_mask,
                 navigation_mask |-> navigation_mask,
                 num_chunks |-> IF exc = ErrOutputDimension
                                THEN given_chunks ELSE <<num_chunks>>,
                 reproject |-> IF exc = "none"
                               THEN reproject_after_setup(algorithm, reproject)
                               ELSE reproject,
                 reproject_given |-> reproject]
            /\ dec_blocksize' =
                IF exc = ErrOutputDimension THEN 0
                ELSE batch_blocksize(default_num_chunks(given_chunks),
                                     blocksize, output_dimension)
            /\ dec_nblocks' =
                IF exc = ErrOutputDimension THEN 0
                ELSE count_blocks(dec_nav_chunks)
            /\ dec_obj' =
                IF exc = "none" /\ algorithm # "SVD"
                THEN [NoObj EXCEPT !.algorithm = algorithm]
                ELSE NoObj
            /\ dec_original_data' =
                IF exc = "none" THEN [set |-> TRUE, ref |-> dec_data]
                ELSE NoOriginalData
            /\ dec_exc' = exc
            /\ dec_pc' = IF exc = "none" THEN "entered" ELSE "raised"
    /\ dec_snapshot' = [data |-> dec_data, is_unfolded |-> dec_is_unfolded,
                        learning_results |-> dec_learning_results]
    /\ UNCHANGED <<dec_nav_chunks, dec_sig_chunks, dec_data, dec_is_unfolded,
                   dec_unfolded4decomposition, dec_learning_results,
                   dec_coeffs, dec_pos, dec_this_data, dec_H, dec_results,
                   dec_computed, dec_interrupted>>

\* lines 925-959: the data is scaled when normalize_poissonian_noise is truthy;
\* da.compute of the two sums may fail
decomposition_normalize ==
    /\ dec_pc = "entered"
    /\ IF Truthy(dec_args.normalize_poissonian_noise)
       THEN \E failed \in BOOLEAN :
            /\ dec_computed' = dec_computed + 1
            /\ IF failed
               THEN /\ dec_exc' = ExternalFailure
                    /\ dec_pc' = "finally"
                    /\ UNCHANGED <<dec_data, dec_coeffs>>
               ELSE /\ dec_data' = Append(dec_data, "scaled")
                    /\ dec_coeffs' = TRUE
                    /\ dec_pc' = "learn"
                    /\ UNCHANGED dec_exc
       ELSE /\ dec_pc' = "learn"
            /\ UNCHANGED <<dec_data, dec_coeffs, dec_exc, dec_computed>>
    /\ UNCHANGED <<dec_nav_chunks, dec_sig_chunks, dec_is_unfolded,
                   dec_unfolded4decomposition, dec_learning_results, dec_args,
                   dec_blocksize, dec_nblocks, dec_original_data, dec_obj,
                   dec_pos, dec_this_data, dec_H, dec_results, dec_snapshot,
                   dec_interrupted>>

\* lines 962-989: the SVD of the unfolded signal; unfold() returns True when
\* it unfolded something, the arrays of svd stay lazy, svd may fail
decomposition_svd ==
    /\ dec_pc = "learn"
    /\ dec_args.algorithm = "SVD"
    /\ LET unfolds == ~dec_is_unfolded /\ Len(dec_nav_chunks) > 1
           unfolded4decomposition == IF unfolds THEN "True" ELSE "False"
           unfolded == IF unfolds THEN Append(dec_data, "unfold") ELSE dec_data
           masked == \/ dec_args.navigation_mask.type # "None"
                     \/ dec_args.signal_mask.type # "None"
           navsize == multiply(NavShape(dec_nav_chunks))
           sigsize == SeqSum(dec_sig_chunks)
           full == IF navsize <= sigsize THEN navsize ELSE sigsize
           min_shape == IF dec_args.output_dimension = <<>> THEN full
                        ELSE IF dec_args.output_dimension[1] <= full
                        THEN dec_args.output_dimension[1] ELSE full
       IN  /\ dec_unfolded4decomposition' = unfolded4decomposition
           /\ IF fold_needed(unfolded4decomposition)
              THEN /\ dec_data' = Append(unfolded, "fold")
                   /\ dec_is_unfolded' = FALSE
              ELSE /\ dec_data' = unfolded
                   /\ dec_is_unfolded' = (dec_is_unfolded \/ unfolds)
           /\ \E failed \in BOOLEAN :
                IF masked \/ failed
                THEN /\ dec_exc' = IF masked THEN ErrMaskedSVD ELSE ExternalFailure
                     /\ dec_pc' = "finally"
                     /\ UNCHANGED dec_results
                ELSE /\ dec_results' =
                        [factors |-> <<sigsize, min_shape, 0>>,
                         loadings |-> <<LoadingRows(range(navsize), min_shape), 0>>,
                         explained_variance |-> <<"S ** 2 / self.data.shape[0]">>,
                         explained_variance_ratio |-> <<>>]
                     /\ dec_pc' = "learned"
                     /\ UNCHANGED dec_exc
    /\ dec_args' = [dec_args EXCEPT !.reproject = FALSE]
    /\ UNCHANGED <<dec_nav_chunks, dec_sig_chunks, dec_learning_results,
                   dec_blocksize, dec_nblocks, dec_original_data, dec_coeffs,
                   dec_obj, dec_pos, dec_this_data, dec_H, dec_snapshot,
                   dec_computed, dec_interrupted>>

\* lines 995-1010: one pass of the learn loop: the block iterator yields a
\* block, which is held; num_chunks held blocks are fitted
decomposition_learn_block ==
    /\ dec_pc = "learn"
    /\ dec_args.algorithm # "SVD"
    /\ dec_pos < dec_nblocks
    /\ dec_computed' = dec_computed + 1
    /\ dec_pos' = dec_pos + 1
    /\ IF NextBlock.kind = "payload"
       THEN LET held == Append(dec_this_data, NextBlock)
            IN  /\ IF batch_full(held, dec_args.num_chunks[1])
                   THEN /\ dec_obj' = fit(dec_obj, held)
                        /\ dec_this_data' = <<>>
                   ELSE /\ dec_this_data' = held
                        /\ UNCHANGED dec_obj
                /\ UNCHANGED <<dec_pc, dec_exc>>
       ELSE /\ dec_exc' = NextBlock.kind
            /\ dec_pc' = "finally"
            /\ UNCHANGED <<dec_obj, dec_this_data>>
    /\ UNCHANGED <<dec_nav_chunks, dec_sig_chunks, dec_data, dec_is_unfolded,
                   dec_unfolded4decomposition, dec_learning_results, dec_args,
                   dec_blocksize, dec_nblocks, dec_original_data, dec_coeffs,
                   dec_H, dec_results, dec_snapshot, dec_interrupted>>

\* lines 1011-1013: the block iterator ended, what is still held is fitted
decomposition_learn_end ==
    /\ dec_pc = "learn"
    /\ dec_args.algorithm # "SVD"
    /\ dec_pos = dec_nblocks
    /\ IF Len(dec_this_data) > 0
       THEN dec_obj' = fit(dec_obj, dec_this_data)
       ELSE UNCHANGED dec_obj
    /\ dec_pc' = "learned"
    /\ UNCHANGED <<dec_nav_chunks, dec_sig_chunks, dec_data, dec_is_unfolded,
                   dec_unfolded4decomposition, dec_learning_results, dec_args,
                   dec_blocksize, dec_nblocks, dec_original_data, dec_coeffs,
                   dec_pos, dec_this_data, dec_H, dec_results, dec_exc,
                   dec_snapshot, dec_computed, dec_interrupted>>

\* lines 1014-1015: KeyboardInterrupt inside the try of line 994
decomposition_learn_interrupt ==
    /\ dec_pc = "learn"
    /\ dec_args.algorithm # "SVD"
    /\ dec_interrupted' = dec_interrupted \cup {"learn"}
    /\ dec_pc' = "learned"
    /\ UNCHANGED <<dec_nav_chunks, dec_sig_chunks, dec_data, dec_is_unfolded,
                   dec_unfolded4decomposition, dec_learning_results, dec_args,
                   dec_blocksize, dec_nblocks, dec_original_data, dec_coeffs,
                   dec_obj, dec_pos, dec_this_data, dec_H, dec_results,
                   dec_exc, dec_snapshot, dec_computed>>

\* a fit, a transform or the materialization of a block fails inside one of
\* the two streaming loops
decomposition_external_failure ==
    /\ dec_pc \in {"learn", "project"}
    /\ dec_args.algorithm # "SVD"
    /\ dec_exc' = ExternalFailure
    /\ dec_pc' = "finally"
    /\ UNCHANGED <<dec_nav_chunks, dec_sig_chunks, dec_data, dec_is_unfolded,
                   dec_unfolded4decomposition, dec_learning_results, dec_args,
                   dec_blocksize, dec_nblocks, dec_original_data, dec_coeffs,
                   dec_obj, dec_pos, dec_this_data, dec_H, dec_results,
                   dec_snapshot, dec_computed, dec_interrupted>>

\* lines 1018-1060: the results the estimator holds are read, and the
\* reprojection is set up; reading an estimator that was never fitted may fail
decomposition_extract ==
    /\ dec_pc = "learned"
    /\ \E failed \in BOOLEAN :
        /\ failed => dec_args.algorithm # "SVD" /\ dec_obj.fits = 0
        /\ IF failed
           THEN /\ dec_exc' = ExternalFailure
                /\ dec_pc' = "finally"
                /\ UNCHANGED dec_results
           ELSE /\ dec_results' =
                    IF dec_args.algorithm = "SVD" THEN dec_results
                    ELSE IF dec_args.algorithm = "PCA"
                    THEN [factors |-> <<dec_obj.cols, dec_args.output_dimension[1], 0>>,
                          loadings |-> <<>>,
                          explained_variance |-> <<"obj.explained_variance_">>,
                          explained_variance_ratio |-> <<"obj.explained_variance_ratio_">>]
                    ELSE [factors |-> <<dec_obj.cols, dec_args.output_dimension[1], 0>>,
                          loadings |-> <<LoadingRows(dec_obj.rows,
                                                     dec_args.output_dimension[1]), 0>>,
                          explained_variance |-> <<>>,
                          explained_variance_ratio |-> <<>>]
                /\ dec_pc' = IF dec_args.reproject THEN "project" ELSE "reshuffle"
                /\ UNCHANGED dec_exc
    /\ dec_pos' = 0
    /\ dec_H' = <<>>
    /\ UNCHANGED <<dec_nav_chunks, dec_sig_chunks, dec_data, dec_is_unfolded,
                   dec_unfolded4decomposition, dec_learning_results, dec_args,
                   dec_blocksize, dec_nblocks, dec_original_data, dec_coeffs,
                   dec_obj, dec_this_data, dec_snapshot, dec_computed,
                   dec_interrupted>>

\* the end of the project loop and line 1066: loadings = post(H)
ProjectLoopLeft ==
    IF post(dec_H).kind = "ValueError"
    THEN /\ dec_exc' = ErrConcatenate
         /\ dec_pc' = "finally"
         /\ UNCHANGED dec_results
    ELSE /\ dec_results' = [dec_results EXCEPT !.loadings = <<post(dec_H), 0>>]
         /\ dec_pc' = "reshuffle"
         /\ UNCHANGED dec_exc

\* lines 1062-1063: one pass of the project loop
decomposition_project_block ==
    /\ dec_pc = "project"
    /\ dec_pos < dec_nblocks
    /\ dec_computed' = dec_computed + 1
    /\ dec_pos' = dec_pos + 1
    /\ IF NextBlock.kind = "payload"
       THEN /\ dec_H' = Append(dec_H, LoadingRows(NextBlock.rows,
                                                  dec_args.output_dimension[1]))
            /\ UNCHANGED <<dec_pc, dec_exc>>
       ELSE /\ dec_exc' = NextBlock.kind
            /\ dec_pc' = "finally"
            /\ UNCHANGED dec_H
    /\ UNCHANGED <<dec_nav_chunks, dec_sig_chunks, dec_data, dec_is_unfolded,
                   dec_unfolded4decomposition, dec_learning_results, dec_args,
                   dec_blocksize, dec_nblocks, dec_original_data, dec_coeffs,
                   dec_obj, dec_this_data, dec_results, dec_snapshot,
                   dec_interrupted>>

\* the block iterator ended: the project loop ends, lines 1062 and 1066
decomposition_project_end ==
    /\ dec_pc = "project"
    /\ dec_pos = dec_nblocks
    /\ ProjectLoopLeft
    /\ UNCHANGED <<dec_nav_chunks, dec_sig_chunks, dec_data, dec_is_unfolded,
                   dec_unfolded4decomposition, dec_learning_results, dec_args,
                   dec_blocksize, dec_nblocks, dec_original_data, dec_coeffs,
                   dec_obj, dec_pos, dec_this_data, dec_H, dec_snapshot,
                   dec_computed, dec_interrupted>>

\* lines 1064-1066: KeyboardInterrupt inside the try of line 1061
decomposition_project_interrupt ==
    /\ dec_pc = "project"
    /\ dec_interrupted' = dec_interrupted \cup {"project"}
    /\ ProjectLoopLeft
    /\ UNCHANGED <<dec_nav_chunks, dec_sig_chunks, dec_data, dec_is_unfolded,
                   dec_unfolded4decomposition, dec_learning_results, dec_args,
                   dec_blocksize, dec_nblocks, dec_original_data, dec_coeffs,
                   dec_obj, dec_pos, dec_this_data, dec_H, dec_snapshot,
                   dec_computed>>

\* lines 1068-1081: the explained variance ratio and the reshuffle of the
\* loadings; ValueError is caught, any other exception goes on
decomposition_reshuffle ==
    /\ dec_pc = "reshuffle"
    /\ LET ratio == IF /\ dec_results.explained_variance # <<>>
                       /\ dec_results.explained_variance_ratio = <<>>
                    THEN <<"explained_variance / explained_variance.sum()">>
                    ELSE dec_results.explained_variance_ratio
           r == reshuffle_and_reshape(dec_results.loadings[1], Len(dec_nav_chunks),
                                      dec_args.output_dimension[1], dec_nav_chunks)
       IN  IF dec_args.algorithm = "SVD"
           THEN /\ dec_results' = [dec_results EXCEPT !.explained_variance_ratio = ratio]
                /\ UNCHANGED dec_exc
           ELSE IF r.kind = "array"
           THEN /\ dec_results' = [dec_results EXCEPT
                                      !.explained_variance_ratio = ratio,
                                      !.loadings = <<r, 0>>]
                /\ UNCHANGED dec_exc
           ELSE IF r.kind = "ValueError"
           THEN /\ dec_results' = [dec_results EXCEPT !.explained_variance_ratio = ratio]
                /\ UNCHANGED dec_exc
           ELSE /\ dec_results' = [dec_results EXCEPT !.explained_variance_ratio = ratio]
                /\ dec_exc' = r.kind
    /\ dec_pc' = "finally"
    /\ UNCHANGED <<dec_nav_chunks, dec_sig_chunks, dec_data, dec_is_unfolded,
                   dec_unfolded4decomposition, dec_learning_results, dec_args,
                   dec_blocksize, dec_nblocks, dec_original_data, dec_coeffs,
                   dec_obj, dec_pos, dec_this_data, dec_H, dec_snapshot,
                   dec_computed, dec_interrupted>>

\* lines 1082-1083: the finally clause, on the way out of the try with or
\* without an exception
decomposition_finally ==
    /\ dec_pc = "finally"
    /\ dec_data' = finally_data(dec_original_data.ref, dec_data)
    /\ dec_pc' = IF dec_exc = "none" THEN "commit" ELSE "raised"
    /\ UNCHANGED <<dec_nav_chunks, dec_sig_chunks, dec_is_unfolded,
                   dec_unfolded4decomposition, dec_learning_results, dec_args,
                   dec_blocksize, dec_nblocks, dec_original_data, dec_coeffs,
                   dec_obj, dec_pos, dec_this_data, dec_H, dec_results,
                   dec_exc, dec_snapshot, dec_computed, dec_interrupted>>

\* lines 1085-1098: the results are written into learning_results, then
\* rescaled when normalize_poissonian_noise is True; a multiplication whose
\* operands do not broadcast raises ValueError
decomposition_commit ==
    /\ dec_pc = "commit"
    /\ LET factors == dec_results.factors
           loadings == dec_results.loadings
           rows == loadings[1].shape[1]
           navsize == multiply(NavShape(dec_nav_chunks))
           sigsize == SeqSum(dec_sig_chunks)
           rescale == dec_args.normalize_poissonian_noise = "True"
           factors_fit == BroadcastFits(factors[1], sigsize)
           loadings_fit == BroadcastFits(rows, navsize)
           target ==
             [decomposition_algorithm |-> Written(<<dec_args.algorithm>>),
              output_dimension |-> Written(dec_args.output_dimension),
              object |-> IF dec_args.algorithm # "SVD"
                         THEN Written(<<dec_obj.algorithm, dec_obj.fits>>)
                         ELSE dec_learning_results.object,
              factors |-> Written(factors),
              loadings |-> Written(loadings),
              explained_variance |-> Written(dec_results.explained_variance),
              explained_variance_ratio |->
                 Written(dec_results.explained_variance_ratio)]
           rescaled_factors ==
             Written(<<BroadcastRows(factors[1], sigsize), factors[2], 1>>)
           rescaled_loadings ==
             Written(<<IF rows = 1
                       THEN NdArray(<<navsize, loadings[1].shape[2]>>,
                                    Flatten([k \in 1..navsize |-> loadings[1].flat]))
                       ELSE loadings[1], 1>>)
       IN  IF ~rescale
           THEN /\ dec_learning_results' = target
                /\ dec_pc' = "returned"
                /\ UNCHANGED dec_exc
           ELSE IF ~factors_fit
           THEN /\ dec_learning_results' = target
                /\ dec_pc' = "raised"
                /\ dec_exc' = ErrBroadcast
           ELSE IF ~loadings_fit
           THEN /\ dec_learning_results' = [target EXCEPT !.factors = rescaled_factors]
                /\ dec_pc' = "raised"
                /\ dec_exc' = ErrBroadcast
           ELSE /\ dec_learning_results' =
                    [target EXCEPT !.factors = rescaled_factors,
                                   !.loadings = rescaled_loadings]
                /\ dec_pc' = "returned"
                /\ UNCHANGED dec_exc
    /\ UNCHANGED <<dec_nav_chunks, dec_sig_chunks, dec_data, dec_is_unfolded,
                   dec_unfolded4decomposition, dec_args, dec_blocksize,
                   dec_nblocks, dec_original_data, dec_coeffs, dec_obj,
                   dec_pos, dec_this_data, dec_H, dec_results, dec_snapshot,
                   dec_computed, dec_interrupted>>

\* the call has returned or raised: its frame is gone, and what it wrote
\* into learning_results is from now on the work of an earlier call
decomposition_leave ==
    /\ dec_ended
    /\ dec_pc' = "idle"
    /\ dec_learning_results' = EarlierResults(dec_learning_results)
    /\ dec_args' = NoArgs
    /\ dec_blocksize' = 0
    /\ dec_nblocks' = 0
    /\ dec_original_data' = NoOriginalData
    /\ dec_coeffs' = FALSE
    /\ dec_obj' = NoObj
    /\ dec_pos' = 0
    /\ dec_this_data' = <<>>
    /\ dec_H' = <<>>
    /\ dec_results' = NoResults
    /\ dec_exc' = "none"
    /\ dec_snapshot' = [data |-> dec_data, is_unfolded |-> dec_is_unfolded,
                        learning_results |-> EarlierResults(dec_learning_results)]
    /\ dec_computed' = 0
    /\ dec_interrupted' = {}
    /\ UNCHANGED <<dec_nav_chunks, dec_sig_chunks, dec_data, dec_is_unfolded,
                   dec_unfolded4decomposition>>

(***************************************************************************)
(* BlockwiseMapEngine: LazySignal._map_iterate                             *)
(*                                                                         *)
(* An axis descriptor is [id, navigate, size]; mi_axes holds the           *)
(* descriptors of the signal in array order, the navigation axes first.    *)
(* The axes manager is not part of this file: it is modelled at its        *)
(* interface, and the order in which it lists the signal axes (array order *)
(* or reversed) is mi_axes_order, fixed when the signal is created.        *)
(* self.data is [ref, shape]: ref names the array object.  The mapped      *)
(* function is modelled by the signal shape it returns (mi_args.fn_out).   *)
(* An optional shape is [given, val].                                      *)
(***************************************************************************)
VARIABLES
    mi_pc,                  \* position in _map_iterate
    mi_axes_order,          \* "array" or "reversed": order of signal_axes
    mi_axes,                \* self.axes_manager, in array order
    mi_data,                \* self.data
    mi_spans,               \* every chunk of self.data spans the signal dimensions
    mi_args,                \* ragged, inplace, output_signal_size, output_dtype given
    mi_old_sig,             \* "none", "self" or "rechunked"
    mi_output_signal_size,  \* the local output_signal_size
    mi_axes_changed,        \* the local axes_changed
    mi_sig,                 \* the signal returned: [is, ragged, axes, data]
    mi_rechunks,            \* calls of rechunk made by the call
    mi_probes,              \* materialisations made by the call
    mi_maps,                \* calls of map_blocks made by the call
    mi_exc,                 \* the exception the call raised, "" if none
    mi_before               \* axes and data of the signal when the call was made

miVars == <<mi_pc, mi_axes_order, mi_axes, mi_data, mi_spans, mi_args,
            mi_old_sig, mi_output_signal_size, mi_axes_changed, mi_sig,
            mi_rechunks, mi_probes, mi_maps, mi_exc, mi_before>>

ErrRaggedInplace == "ValueError: Ragged and inplace are not compatible with a lazy signal"
ErrMapBlocks == "ValueError: map_blocks"

Reverse(s) == [i \in 1..Len(s) |-> s[Len(s) + 1 - i]]

\* positions (from 1) in the array of the axes with the given role
RoleIndices(axes, navigate) ==
    SortedSeq({i \in 1..Len(axes) : axes[i].navigate = navigate})

\* axes_manager.signal_indices_in_array
signal_indices_in_array(axes, order) ==
    IF order = "array" THEN RoleIndices(axes, FALSE)
    ELSE Reverse(RoleIndices(axes, FALSE))

\* axes_manager.navigation_indices_in_array
navigation_indices_in_array(axes, order) ==
    IF order = "array" THEN RoleIndices(axes, TRUE)
    ELSE Reverse(RoleIndices(axes, TRUE))

\* axes_manager.signal_axes
signal_axes(axes, order) ==
    [k \in 1..Len(signal_indices_in_array(axes, order)) |->
        axes[signal_indices_in_array(axes, order)[k]]]

\* axes_manager.signal_shape
signal_shape(axes, order) ==
    [k \in 1..Len(signal_axes(axes, order)) |-> signal_axes(axes, order)[k].size]

\* axes_manager.signal_dimension
signal_dimension(axes) == Len(RoleIndices(axes, FALSE))

\* axes_manager.remove(axes): the descriptors named are taken out
remove(axes, ids) ==
    SelectSeq(axes, LAMBDA ax : ax.id \notin ids)

\* a descriptor identity not in use
FreshId(axes) ==
    CHOOSE n \in 1..(Len(axes) + 1) : \A i \in 1..Len(axes) : axes[i].id # n

\* axes_manager._append_axis(size=size, navigate=False)
append_axis(axes, size) ==
    Append(axes, [id |-> FreshId(axes), navigate |-> FALSE, size |-> size])

\* BaseSignal.get_dimensions_from_data: every axis takes the size of its
\* dimension of the data
get_dimensions_from_data(axes, shape) ==
    [i \in 1..Len(axes) |->
        [axes[i] EXCEPT !.size = IF i <= Len(shape) THEN shape[i] ELSE axes[i].size]]

\* line 648: the output signal shape is the one the axes manager reports
same_signal_shape(output_signal_size, axes, order) ==
    output_signal_size = signal_shape(axes, order)

\* lines 654-662: drop_axis
drop_axis_of(output_signal_size, axes, order) ==
    IF Len(output_signal_size) # Len(signal_shape(axes, order))
    THEN signal_indices_in_array(axes, order)
    ELSE LET idx == signal_indices_in_array(axes, order)
             shp == signal_shape(axes, order)
             keep == {k \in 1..Len(idx) : output_signal_size[k] # shp[k]}
         IN  [j \in 1..Cardinality(keep) |-> idx[SortedSeq(keep)[j]]]

\* lines 656, 662: new_axis
new_axis_of(output_signal_size, axes, order) ==
    IF Len(output_signal_size) # Len(signal_shape(axes, order))
    THEN [k \in 1..Len(output_signal_size) |->
             Len(navigation_indices_in_array(axes, order)) + k]
    ELSE drop_axis_of(output_signal_size, axes, order)

\* line 663: the shape the chunks argument of map_blocks describes
mapped_shape(data_shape, axes, output_signal_size) ==
    Pick(data_shape, RoleIndices(axes, TRUE)) \o output_signal_size

\* map_blocks: the number of dimensions its drop_axis and new_axis leave
map_blocks_ndim(ndim, drop_axis, new_axis) ==
    ndim - Len(drop_axis) + Len(new_axis)

\* line 692: the signal axes beyond the rank of the output
surplus_signal_axes_KeepsOneMore(axes, order, output_signal_size) ==
    {signal_axes(axes, order)[k].id :
        k \in (Len(output_signal_size) + 2)..Len(signal_axes(axes, order))}

surplus_signal_axes(axes, order, output_signal_size) ==
    {signal_axes(axes, order)[k].id :
        k \in (Len(output_signal_size) + 1)..Len(signal_axes(axes, order))}

\* lines 694-697: for ind in range(n, 0, -1): _append_axis(output_signal_size[-ind])
RECURSIVE append_missing_axes(_, _, _)
append_missing_axes(axes, output_signal_size, ind) ==
    IF ind <= 0 THEN axes
    ELSE append_missing_axes(
             append_axis(axes, output_signal_size[Len(output_signal_size) + 1 - ind]),
             output_signal_size, ind - 1)

\* lines 691-699 for a signal that is not ragged
reconcile_axes(axes, order, output_signal_size, axes_changed, data_shape) ==
    LET removed == IF axes_changed
                   THEN remove(axes, surplus_signal_axes(axes, order, output_signal_size))
                   ELSE axes
        grown == IF axes_changed
                 THEN append_missing_axes(removed, output_signal_size,
                          Len(output_signal_size) - signal_dimension(removed))
                 ELSE removed
    IN  get_dimensions_from_data(grown, data_shape)

\* line 598: ragged and inplace
ragged_inplace_conflict_InplaceNegated(ragged, inplace) == ragged /\ ~inplace

ragged_inplace_conflict(ragged, inplace) == ragged /\ inplace

MiSizes == {2, 3}

MiShapes(maxlen) == UNION {[1..n -> MiSizes] : n \in 0..maxlen}

NoShape == [given |-> FALSE, val |-> <<>>]
GivenShape(s) == [given |-> TRUE, val |-> s]

MiAxes(nav, sig) ==
    [i \in 1..(Len(nav) + Len(sig)) |->
        [id |-> i, navigate |-> i <= Len(nav),
         size |-> IF i <= Len(nav) THEN nav[i] ELSE sig[i - Len(nav)]]]

NoSig == [is |-> "none", ragged |-> FALSE, axes |-> <<>>, data |-> [ref |-> "none", shape |-> <<>>]]

MiArgs ==
    [ragged : BOOLEAN, inplace : BOOLEAN, fn_out : MiShapes(MaxOutDims),
     output_signal_size : {NoShape} \cup {GivenShape(s) : s \in MiShapes(MaxOutDims)},
     output_dtype : BOOLEAN]

NoMiArgs == [ragged |-> FALSE, inplace |-> FALSE, fn_out |-> <<>>,
             output_signal_size |-> NoShape, output_dtype |-> FALSE]

MiInit ==
    /\ mi_pc = "idle"
    /\ mi_axes_order \in {"array", "reversed"}
    /\ \E nav \in {<<2>>, <<2, 3>>}, sig \in MiShapes(MaxSigDims) :
          /\ mi_axes = MiAxes(nav, sig)
          /\ mi_data = [ref |-> "original", shape |-> nav \o sig]
    /\ mi_spans \in BOOLEAN
    /\ mi_args = NoMiArgs
    /\ mi_old_sig = "none"
    /\ mi_output_signal_size = NoShape
    /\ mi_axes_changed = FALSE
    /\ mi_sig = NoSig
    /\ mi_rechunks = 0
    /\ mi_probes = 0
    /\ mi_maps = 0
    /\ mi_exc = ""
    /\ mi_before = [axes |-> mi_axes, data |-> mi_data]

MiIdle ==
    /\ mi_pc = "idle"
    /\ mi_axes_order = "array"
    /\ mi_axes = <<>>
    /\ mi_data = [ref |-> "none", shape |-> <<>>]
    /\ mi_spans = TRUE
    /\ mi_args = NoMiArgs
    /\ mi_old_sig = "none"
    /\ mi_output_signal_size = NoShape
    /\ mi_axes_changed = FALSE
    /\ mi_sig = NoSig
    /\ mi_rechunks = 0
    /\ mi_probes = 0
    /\ mi_maps = 0
    /\ mi_exc = ""
    /\ mi_before = [axes |-> <<>>, data |-> [ref |-> "none", shape |-> <<>>]]

\* lines 591-606: the call, the ragged/inplace check, the rechunk that makes
\* every chunk span the signal dimensions
map_iterate_call ==
    /\ mi_pc = "idle"
    /\ \E args \in MiArgs :
          /\ args.output_signal_size.given => args.output_signal_size.val = args.fn_out
          /\ mi_args' = args
          /\ IF ragged_inplace_conflict(args.ragged, args.inplace)
             THEN /\ mi_pc' = "raised"
                  /\ mi_exc' = ErrRaggedInplace
                  /\ UNCHANGED <<mi_old_sig, mi_rechunks>>
             ELSE /\ mi_pc' = "entered"
                  /\ mi_exc' = ""
                  /\ IF ~mi_spans
                     THEN mi_old_sig' = "rechunked" /\ mi_rechunks' = mi_rechunks + 1
                     ELSE mi_old_sig' = "self" /\ UNCHANGED mi_rechunks
    /\ mi_before' = [axes |-> mi_axes, data |-> mi_data]
    /\ UNCHANGED <<mi_axes_order, mi_axes, mi_data, mi_spans, mi_output_signal_size,
                   mi_axes_changed, mi_sig, mi_probes, mi_maps>>

\* lines 607-646: the output shape and dtype are probed on the first
\* navigation position unless both were given
map_iterate_probe ==
    /\ mi_pc = "entered"
    /\ IF ~mi_args.output_signal_size.given \/ ~mi_args.output_dtype
       THEN /\ mi_probes' = mi_probes + 1
            /\ mi_output_signal_size' =
                   GivenShape(IF mi_args.ragged THEN <<>> ELSE mi_args.fn_out)
       ELSE /\ UNCHANGED mi_probes
            /\ mi_output_signal_size' = mi_args.output_signal_size
    /\ mi_pc' = "probed"
    /\ UNCHANGED <<mi_axes_order, mi_axes, mi_data, mi_spans, mi_args, mi_old_sig,
                   mi_axes_changed, mi_sig, mi_rechunks, mi_maps, mi_exc, mi_before>>

\* lines 647-688: the axes to drop and to add, map_blocks, the signal that
\* takes the mapped array
map_iterate_map ==
    /\ mi_pc = "probed"
    /\ LET out == mi_output_signal_size.val
           same == same_signal_shape(out, mi_axes, mi_axes_order)
           drop == IF same THEN <<>> ELSE drop_axis_of(out, mi_axes, mi_axes_order)
           new == IF same THEN <<>> ELSE new_axis_of(out, mi_axes, mi_axes_order)
           shape == mapped_shape(mi_data.shape, mi_axes, out)
           mapped == [ref |-> "mapped", shape |-> shape]
       IN  /\ mi_axes_changed' = ~same
           /\ mi_maps' = mi_maps + 1
           /\ IF map_blocks_ndim(Len(mi_data.shape), drop, new) # Len(shape)
              THEN /\ mi_pc' = "raised"
                   /\ mi_exc' = ErrMapBlocks
                   /\ UNCHANGED <<mi_data, mi_sig>>
              ELSE /\ mi_exc' = ""
                   /\ IF mi_args.inplace
                      THEN /\ mi_data' = mapped
                           /\ mi_sig' = [is |-> "self", ragged |-> FALSE,
                                         axes |-> mi_axes, data |-> mapped]
                           /\ mi_pc' = "mapped"
                      ELSE /\ UNCHANGED mi_data
                           /\ IF mi_args.ragged
                              THEN /\ mi_sig' = [is |-> "copy", ragged |-> TRUE,
                                                 axes |-> SelectSeq(mi_axes, LAMBDA ax : ax.navigate),
                                                 data |-> mapped]
                                   /\ mi_pc' = "returned"
                              ELSE /\ mi_sig' = [is |-> "copy", ragged |-> FALSE,
                                                 axes |-> mi_axes, data |-> mapped]
                                   /\ mi_pc' = "mapped"
    /\ mi_spans' = (mi_spans \/ mi_data' # mi_data)
    /\ UNCHANGED <<mi_axes_order, mi_axes, mi_args, mi_old_sig,
                   mi_output_signal_size, mi_rechunks, mi_probes, mi_before>>

\* lines 690-700: surplus signal axes removed, missing ones appended, the
\* sizes read back from the data
map_iterate_reconcile ==
    /\ mi_pc = "mapped"
    /\ LET axes == reconcile_axes(mi_sig.axes, mi_axes_order, mi_output_signal_size.val,
                                  mi_axes_changed, mi_sig.data.shape)
       IN  /\ mi_sig' = [mi_sig EXCEPT !.axes = axes]
           /\ IF mi_sig.is = "self" THEN mi_axes' = axes ELSE UNCHANGED mi_axes
    /\ mi_pc' = "returned"
    /\ UNCHANGED <<mi_axes_order, mi_data, mi_spans, mi_args, mi_old_sig,
                   mi_output_signal_size, mi_axes_changed, mi_rechunks, mi_probes,
                   mi_maps, mi_exc, mi_before>>

(***************************************************************************)
(* LazyDataAccessor: LazySignal._make_lazy / _lazy_data and                *)
(* LazySignal.rechunk                                                      *)
(*                                                                         *)
(* self.data is [is_dask, chunks]: a dask array with its chunks, or an     *)
(* in-memory array (chunks <<>>).  The navigation dimensions come first in *)
(* the array.  One entry of a chunk request is [kind, n]: "auto", "whole"  *)
(* (-1) or "size" (blocks of n elements).  dask is outside this file: its  *)
(* rechunk and from_array return the chunks asked for, and choose the      *)
(* chunks themselves where the request says "auto".  A nav_chunks or       *)
(* sig_chunks argument is [is_tuple, val]: val is the tuple, or the one    *)
(* value that is not a tuple as <<value>>.                                 *)
(***************************************************************************)
VARIABLES
    rc_shape,        \* self.data.shape
    rc_nav_dims,     \* number of navigation dimensions
    rc_itemsize,     \* self.data.dtype.itemsize
    rc_data,         \* self.data
    rc_request,      \* the last request made
    rc_repeat,       \* the last request is the one made just before it
    rc_before,       \* self.data before the last request
    rc_issued,       \* the last request called rechunk on the array
    rc_returned      \* the chunks of the signal the last request returned, <<>> if none

rcVars == <<rc_shape, rc_nav_dims, rc_itemsize, rc_data, rc_request, rc_repeat,
            rc_before, rc_issued, rc_returned>>

Auto == [kind |-> "auto", n |-> 0]
Whole == [kind |-> "whole", n |-> 0]
BlocksOf(n) == [kind |-> "size", n |-> n]

\* the chunks of one dimension cut into blocks of n elements
blocks(size, n) ==
    [k \in 1..CeilDiv(size, n) |-> IF k * n <= size THEN n ELSE size - (k - 1) * n]

\* the chunkings dask may choose for one dimension
AutoChunkings(size) ==
    {<<size>>, array_split_lens(size, 2)}

\* the chunks dask gives one dimension for one entry of a request
DaskChoices(size, entry) ==
    CASE entry.kind = "auto" -> AutoChunkings(size)
      [] entry.kind = "whole" -> {<<size>>}
      [] OTHER -> {blocks(size, entry.n)}

\* the chunks da.Array.rechunk and da.from_array may give for a request with
\* one entry per dimension
DaskChunks(shape, entries) ==
    {c \in [1..Len(shape) -> UNION {DaskChoices(shape[i], entries[i]) : i \in 1..Len(shape)}] :
        \A i \in 1..Len(shape) : c[i] \in DaskChoices(shape[i], entries[i])}

\* the halving loop of lines 258-263
RECURSIVE HalvedSizes(_, _)
HalvedSizes(free_sizes, budget) ==
    IF HalvingDone(free_sizes, budget) THEN free_sizes
    ELSE HalvedSizes(Halve(free_sizes), budget)

\* _get_dask_chunks as a function of the array and the axes to keep
get_dask_chunks(shape, need, dtype, itemsize) ==
    LET that_fit == NumThatFit(want_to_keep(shape, need, dtype, itemsize))
        free == SortedSeq((1..Len(shape)) \ need)
    IN  IF that_fit < 2 THEN DegenerateChunks(shape, need)
        ELSE SplitChunks(shape, free, HalvedSizes(<<>> \o Pick(shape, free), that_fit))

\* lines 317-320: new_chunks; <<>> stands for "auto"
lazy_data_new_chunks(rechunk, shape, need, dtype, itemsize) ==
    IF rechunk = "dask_auto" THEN <<>>
    ELSE get_dask_chunks(shape, need, dtype, itemsize)

\* line 323: self.data.chunks != new_chunks and rechunk
lazy_data_rechunks(chunks, new_chunks, rechunk) ==
    chunks # new_chunks /\ rechunk # "False"

\* lines 158-162: new_chunks of rechunk; a value that is not a tuple is
\* repeated for every dimension of its space
rechunk_new_chunks(nav_chunks, sig_chunks, nav_dims, ndim) ==
    LET nav == IF nav_chunks.is_tuple THEN nav_chunks.val
               ELSE [i \in 1..nav_dims |-> nav_chunks.val[1]]
        sig == IF sig_chunks.is_tuple THEN sig_chunks.val
               ELSE [i \in 1..(ndim - nav_dims) |-> sig_chunks.val[1]]
    IN  nav \o sig

Scalar(e) == [is_tuple |-> FALSE, val |-> <<e>>]
Tuple(es) == [is_tuple |-> TRUE, val |-> es]

NoRequest == [op |-> "none"]

\* the requests of _make_lazy: axis None is <<>>, an axis is <<index>>
MakeLazyRequests ==
    [op : {"make_lazy"}, rechunk : {"True", "False", "dask_auto"},
     axis : {<<>>, <<1>>}, dtype : {<<>>, <<16>>}]

\* the requests of rechunk
RechunkRequests(nav_dims) ==
    [op : {"rechunk"},
     nav_chunks : {Scalar(Auto), Scalar(Whole), Scalar(BlocksOf(2)),
                   Tuple([i \in 1..nav_dims |-> IF i = 1 THEN BlocksOf(2) ELSE Whole])},
     sig_chunks : {Scalar(Whole), Scalar(Auto)},
     inplace : BOOLEAN]

RcArrays ==
    {[shape |-> <<7, 2048>>, nav_dims |-> 1], [shape |-> <<64, 64, 2048>>, nav_dims |-> 2]}

RcInit ==
    /\ \E a \in RcArrays :
          /\ rc_shape = a.shape
          /\ rc_nav_dims = a.nav_dims
          /\ \/ rc_data = [is_dask |-> FALSE, chunks |-> <<>>]
             \/ \E c \in DaskChunks(a.shape, [i \in 1..Len(a.shape) |-> Auto]) :
                   rc_data = [is_dask |-> TRUE, chunks |-> c]
    /\ rc_itemsize \in {8, 16}
    /\ rc_request = NoRequest
    /\ rc_repeat = FALSE
    /\ rc_before = rc_data
    /\ rc_issued = FALSE
    /\ rc_returned = <<>>

RcIdle ==
    /\ rc_shape = <<>>
    /\ rc_nav_dims = 0
    /\ rc_itemsize = 1
    /\ rc_data = [is_dask |-> FALSE, chunks |-> <<>>]
    /\ rc_request = NoRequest
    /\ rc_repeat = FALSE
    /\ rc_before = rc_data
    /\ rc_issued = FALSE
    /\ rc_returned = <<>>

\* the signal axes, the axes _get_dask_chunks keeps when axis is None
RcNeedAxes(axis) ==
    IF axis = <<>> THEN (rc_nav_dims + 1)..Len(rc_shape) ELSE {axis[1]}

\* lines 282-283 and 297-332: self.data = self._lazy_data(axis, rechunk, dtype)
make_lazy ==
    \E req \in MakeLazyRequests :
        LET new_chunks == lazy_data_new_chunks(req.rechunk, rc_shape,
                              RcNeedAxes(req.axis), req.dtype, rc_itemsize)
            entries == [i \in 1..Len(rc_shape) |-> Auto]
        IN  /\ rc_request' = req
            /\ rc_repeat' = (req = rc_request)
            /\ rc_before' = rc_data
            /\ rc_returned' = <<>>
            /\ IF rc_data.is_dask
               THEN IF lazy_data_rechunks(rc_data.chunks, new_chunks, req.rechunk)
                    THEN /\ rc_issued' = TRUE
                         /\ IF new_chunks = <<>>
                            THEN \E c \in DaskChunks(rc_shape, entries) :
                                    rc_data' = [is_dask |-> TRUE, chunks |-> c]
                            ELSE rc_data' = [is_dask |-> TRUE, chunks |-> new_chunks]
                    ELSE /\ rc_issued' = FALSE
                         /\ UNCHANGED rc_data
               ELSE /\ rc_issued' = FALSE
                    /\ IF new_chunks = <<>>
                       THEN \E c \in DaskChunks(rc_shape, entries) :
                               rc_data' = [is_dask |-> TRUE, chunks |-> c]
                       ELSE rc_data' = [is_dask |-> TRUE, chunks |-> new_chunks]
            /\ UNCHANGED <<rc_shape, rc_nav_dims, rc_itemsize>>

\* lines 134-168: rechunk(nav_chunks, sig_chunks, inplace) on a dask array
rechunk ==
    /\ rc_data.is_dask
    /\ \E req \in RechunkRequests(rc_nav_dims) :
          LET new_chunks == rechunk_new_chunks(req.nav_chunks, req.sig_chunks,
                                               rc_nav_dims, Len(rc_shape))
          IN  /\ rc_request' = req
              /\ rc_repeat' = (req = rc_request)
              /\ rc_before' = rc_data
              /\ rc_issued' = TRUE
              /\ \E c \in DaskChunks(rc_shape, new_chunks) :
                    IF req.inplace
                    THEN /\ rc_data' = [is_dask |-> TRUE, chunks |-> c]
                         /\ rc_returned' = <<>>
                    ELSE /\ UNCHANGED rc_data
                         /\ rc_returned' = c
              /\ UNCHANGED <<rc_shape, rc_nav_dims, rc_itemsize>>

(***************************************************************************)
(* ReductionOps: _apply_function_on_data_and_remove_axis, diff,            *)
(* integrate_simpson, valuemax, valuemin, get_histogram                    *)
(*                                                                         *)
(* The signal has data of shape red_shape.  The destination signal out is  *)
(* [given, ref, shape]: given says an out was passed, ref names the array  *)
(* out.data refers to ("original" or the name of the operation that wrote  *)
(* it) and shape is out.data.shape.  Axes are named by their position in   *)
(* the array, counted from 1.                                              *)
(***************************************************************************)
VARIABLES
    red_pc,          \* "idle", "returned" or "raised"
    red_shape,       \* self.data.shape
    red_out,         \* the destination signal
    red_out_before,  \* the destination signal before the last operation
    red_op,          \* the last operation and its arguments
    red_new_shape,   \* the shape of the result the last operation computed
    red_exc          \* the exception of the last operation

redVars == <<red_pc, red_shape, red_out, red_out_before, red_op, red_new_shape, red_exc>>

NoOut == [given |-> FALSE, ref |-> "none", shape |-> <<>>]
NoRedOp == [name |-> "none", axis |-> 0, order |-> 0, is_uniform |-> TRUE, bins |-> 0]
NoRedExc == [type |-> "none", output_shape |-> <<>>, out_shape |-> <<>>]

\* ValueError("The output shape %s does not match  the shape of `out` %s")
ErrOutShape(new_shape, out_shape) ==
    [type |-> "ValueError", output_shape |-> new_shape, out_shape |-> out_shape]

\* NotImplementedError of diff on a non-uniform axis
ErrNonUniform == [type |-> "NotImplementedError", output_shape |-> <<>>, out_shape |-> <<>>]

\* the shape without one of its dimensions
drop_dimension(shape, axis) ==
    [i \in 1..(Len(shape) - 1) |-> IF i < axis THEN shape[i] ELSE shape[i + 1]]

\* lines 356-359: function(current_data, axis=ar_axes), a 0-d result
\* reshaped to (1,)
reduced_shape(shape, axis) ==
    IF Len(shape) = 1 THEN <<1>> ELSE drop_dimension(shape, axis)

\* lines 410-434: dask_diff(current_data, order, arr_axis), order > 0
diff_shape(shape, axis, order) ==
    [shape EXCEPT ![axis] = IF shape[axis] > order THEN shape[axis] - order ELSE 0]

\* lines 457-462: map_blocks(integrate.simps, drop_axis=axis.index_in_array)
simpson_shape(shape, axis) == drop_dimension(shape, axis)

\* lines 479-482: indexmax / indexmin reduce the axis, map_blocks keeps the shape
value_shape(shape, axis) == reduced_shape(shape, axis)

\* line 513: histogram_dask gives one count per bin
histogram_shape(bins) == <<bins>>

\* lines 360-367, 437-443, 464-472: out takes the result if the shapes agree
out_checked(out, new_shape, name) ==
    IF out.shape = new_shape
    THEN [out |-> [out EXCEPT !.ref = name], exc |-> NoRedExc, pc |-> "returned"]
    ELSE [out |-> out, exc |-> ErrOutShape(new_shape, out.shape), pc |-> "raised"]

\* lines 486-487, 500-501, 519-522: out takes the result
out_overwritten(out, new_shape, name) ==
    [out |-> [out EXCEPT !.ref = name, !.shape = new_shape],
     exc |-> NoRedExc, pc |-> "returned"]

RedShapes == MiShapes(MaxSigDims) \ {<<>>}
RedOutShapes == MiShapes(MaxSigDims) \cup {<<1>>}
RedBins == {2, 3}
RedOrders == {1, 2}

RedInit ==
    /\ red_pc = "idle"
    /\ red_shape \in RedShapes
    /\ red_out \in {NoOut} \cup {[given |-> TRUE, ref |-> "original", shape |-> s] :
                                    s \in RedOutShapes}
    /\ red_out_before = red_out
    /\ red_op = NoRedOp
    /\ red_new_shape = <<>>
    /\ red_exc = NoRedExc

RedIdle ==
    /\ red_pc = "idle"
    /\ red_shape = <<>>
    /\ red_out = NoOut
    /\ red_out_before = NoOut
    /\ red_op = NoRedOp
    /\ red_new_shape = <<>>
    /\ red_exc = NoRedExc

\* the operation ends: with out given, res is what became of out; without,
\* a new signal is returned and out stays as it is
RedEnds(op, new_shape, res) ==
    /\ red_op' = op
    /\ red_new_shape' = new_shape
    /\ red_out_before' = red_out
    /\ IF red_out.given
       THEN red_out' = res.out /\ red_exc' = res.exc /\ red_pc' = res.pc
       ELSE red_out' = red_out /\ red_exc' = NoRedExc /\ red_pc' = "returned"
    /\ UNCHANGED red_shape

\* lines 334-371
apply_function_on_data_and_remove_axis ==
    \E axis \in 1..Len(red_shape) :
        LET new_shape == reduced_shape(red_shape, axis)
        IN  RedEnds([NoRedOp EXCEPT !.name = "reduce", !.axis = axis], new_shape,
                    out_checked(red_out, new_shape, "reduce"))

\* lines 401-448
diff ==
    \E axis \in 1..Len(red_shape), order \in RedOrders, is_uniform \in BOOLEAN :
        LET op == [NoRedOp EXCEPT !.name = "diff", !.axis = axis, !.order = order,
                                  !.is_uniform = is_uniform]
            new_shape == diff_shape(red_shape, axis, order)
        IN  IF ~is_uniform
            THEN /\ red_op' = op
                 /\ red_exc' = ErrNonUniform
                 /\ red_pc' = "raised"
                 /\ red_new_shape' = <<>>
                 /\ red_out_before' = red_out
                 /\ UNCHANGED <<red_out, red_shape>>
            ELSE RedEnds(op, new_shape, out_checked(red_out, new_shape, "diff"))

\* lines 452-474
integrate_simpson ==
    \E axis \in 1..Len(red_shape) :
        LET new_shape == simpson_shape(red_shape, axis)
        IN  RedEnds([NoRedOp EXCEPT !.name = "integrate_simpson", !.axis = axis], new_shape,
                    out_checked(red_out, new_shape, "integrate_simpson"))

\* lines 478-488
valuemax ==
    \E axis \in 1..Len(red_shape) :
        LET new_shape == value_shape(red_shape, axis)
        IN  RedEnds([NoRedOp EXCEPT !.name = "valuemax", !.axis = axis], new_shape,
                    out_overwritten(red_out, new_shape, "valuemax"))

\* lines 492-502
valuemin ==
    \E axis \in 1..Len(red_shape) :
        LET new_shape == value_shape(red_shape, axis)
        IN  RedEnds([NoRedOp EXCEPT !.name = "valuemin", !.axis = axis], new_shape,
                    out_overwritten(red_out, new_shape, "valuemin"))

\* lines 506-533
get_histogram ==
    \E bins \in RedBins :
        LET new_shape == histogram_shape(bins)
        IN  RedEnds([NoRedOp EXCEPT !.name = "get_histogram", !.bins = bins], new_shape,
                    out_overwritten(red_out, new_shape, "get_histogram"))

(***************************************************************************)
(* LazySignal.compute, close_file and _get_file_handle on lazy signals     *)
(* that share one backing file                                             *)
(*                                                                         *)
(* Every view is a lazy signal whose dask graph reads the same open file.  *)
(* The views are used by independent callers, so their operations          *)
(* interleave at the calls into dask and into the file object.  Reading a  *)
(* closed file fails; the file attribute of a dataset of a closed file     *)
(* raises ValueError; closing a file object that is already closed does    *)
(* nothing.  A view is [lazy, pc, close_file, fetched, caller,             *)
(* started_closed, last]: last is the outcome of its last operation.       *)
(***************************************************************************)
VARIABLES
    fh_handle,   \* "open" or "closed": the file the views share
    fh_views     \* the views

fhVars == <<fh_handle, fh_views>>

Views == 1..MaxViews

WarnRetrieve == "Failed to retrieve file handle"
WarnClose == "Failed to close lazy signal file"

NoLast == [op |-> "none", outcome |-> "none", warnings |-> {}, started_closed |-> FALSE]

FreshView ==
    [lazy |-> TRUE, pc |-> "rest", close_file |-> FALSE, fetched |-> "none",
     caller |-> "none", started_closed |-> FALSE, warnings |-> {}, last |-> NoLast]

\* line 124: da.compute() reads the file; the read of a file closed before
\* the call fails, the read of a file closed during the call may fail
materialisation_outcomes(started_closed, handle) ==
    IF started_closed THEN {"error"}
    ELSE IF handle = "closed" THEN {"error", "data"}
    ELSE {"data"}

\* lines 186-198: the handle _get_file_handle returns and the warnings it logs
get_file_handle(handle) ==
    IF handle = "closed"
    THEN [handle |-> "None", warnings |-> {WarnRetrieve}]
    ELSE [handle |-> "file", warnings |-> {}]

\* line 179: the exceptions close_file catches
close_file_catches_Nothing(exc) == FALSE

close_file_catches(exc) == exc = "AttributeError"

FhInit ==
    /\ fh_handle = "open"
    /\ fh_views = [v \in Views |-> FreshView]

FhIdle ==
    /\ fh_handle = "none"
    /\ fh_views = <<>>

\* the operation of view v ends
FhEnds(v, op, outcome, warnings) ==
    [fh_views[v] EXCEPT !.pc = "rest", !.fetched = "none", !.caller = "none",
                        !.warnings = {},
                        !.last = [op |-> op, outcome |-> outcome, warnings |-> warnings,
                                  started_closed |-> fh_views[v].started_closed]]

\* lines 93-123: compute(close_file) is called on a lazy view
compute_call ==
    \E v \in Views, close_file \in BOOLEAN :
        /\ fh_views[v].pc = "rest"
        /\ fh_views[v].lazy
        /\ fh_views' = [fh_views EXCEPT ![v] =
               [@ EXCEPT !.pc = "materialising", !.close_file = close_file,
                         !.started_closed = (fh_handle = "closed"), !.warnings = {}]]
        /\ UNCHANGED fh_handle

\* line 124: data = da.compute()
compute_materialise ==
    \E v \in Views :
        /\ fh_views[v].pc = "materialising"
        /\ \E outcome \in materialisation_outcomes(fh_views[v].started_closed, fh_handle) :
              IF outcome = "error"
              THEN fh_views' = [fh_views EXCEPT ![v] = FhEnds(v, "compute", "raised", {})]
              ELSE fh_views' = [fh_views EXCEPT ![v] =
                       [@ EXCEPT !.pc = IF fh_views[v].close_file
                                         THEN "compute_close" ELSE "assign"]]
        /\ UNCHANGED fh_handle

\* lines 125-126: if close_file: self.close_file()
compute_close_file ==
    \E v \in Views :
        /\ fh_views[v].pc = "compute_close"
        /\ LET got == get_file_handle(fh_handle)
           IN  fh_views' = [fh_views EXCEPT ![v] =
                   [@ EXCEPT !.pc = "closing", !.caller = "compute",
                             !.fetched = got.handle, !.warnings = got.warnings]]
        /\ UNCHANGED fh_handle

\* lines 127-130: self.data = data, the signal is no longer lazy
compute_assign ==
    \E v \in Views :
        /\ fh_views[v].pc = "assign"
        /\ fh_views' = [fh_views EXCEPT ![v] =
               [FhEnds(v, "compute", "returned", fh_views[v].warnings)
                    EXCEPT !.lazy = FALSE]]
        /\ UNCHANGED fh_handle

\* lines 170-198: close_file is called on a lazy view; _get_file_handle looks
\* the file up
close_file_call ==
    \E v \in Views :
        /\ fh_views[v].pc = "rest"
        /\ fh_views[v].lazy
        /\ LET got == get_file_handle(fh_handle)
           IN  fh_views' = [fh_views EXCEPT ![v] =
                   [@ EXCEPT !.pc = "closing", !.caller = "user",
                             !.started_closed = (fh_handle = "closed"),
                             !.fetched = got.handle, !.warnings = got.warnings]]
        /\ UNCHANGED fh_handle

\* lines 177-180: .close() on what _get_file_handle returned
close_file_close ==
    \E v \in Views :
        /\ fh_views[v].pc = "closing"
        /\ IF fh_views[v].fetched = "file"
           THEN /\ fh_handle' = "closed"
                /\ fh_views' = [fh_views EXCEPT ![v] =
                       IF @.caller = "compute"
                       THEN [@ EXCEPT !.pc = "assign", !.fetched = "none"]
                       ELSE FhEnds(v, "close_file", "returned", @.warnings)]
           ELSE /\ UNCHANGED fh_handle
                /\ fh_views' = [fh_views EXCEPT ![v] =
                       IF close_file_catches("AttributeError")
                       THEN IF @.caller = "compute"
                            THEN [@ EXCEPT !.pc = "assign", !.fetched = "none",
                                           !.warnings = @ \cup {WarnClose}]
                            ELSE FhEnds(v, "close_file", "returned",
                                        @.warnings \cup {WarnClose})
                       ELSE FhEnds(v, IF @.caller = "compute" THEN "compute" ELSE "close_file",
                                   "raised", @.warnings)]

(***************************************************************************)
(* Specifications: one per component, the other components at rest.        *)
(***************************************************************************)
vars == <<gdcVars, rsVars, itVars, decVars, miVars, rcVars, redVars, fhVars>>

GdcNext ==
    \/ get_dask_chunks_entry /\ UNCHANGED <<rsVars, itVars, decVars, miVars, rcVars, redVars, fhVars>>
    \/ get_dask_chunks_halve /\ UNCHANGED <<rsVars, itVars, decVars, miVars, rcVars, redVars, fhVars>>
    \/ get_dask_chunks_split /\ UNCHANGED <<rsVars, itVars, decVars, miVars, rcVars, redVars, fhVars>>

InitChunks == GdcInit /\ RsIdle /\ ItIdle /\ DecIdle /\ MiIdle /\ RcIdle /\ RedIdle /\ FhIdle

SpecChunks == InitChunks /\ [][GdcNext]_vars

\* the calls followed to their end: arrays of the default dtype whose axis
\* lengths are 1, odd, a power of two or the largest length
HalvingAxisSizes == {1, 7, 64, 4096}
InitChunksFair ==
    /\ InitChunks
    /\ dtype_arg = <<>>
    /\ \A i \in 1..Len(dc_shape) : dc_shape[i] \in HalvingAxisSizes

\* a call of _get_dask_chunks that has started goes on running
SpecChunksFair == InitChunksFair /\ [][GdcNext]_vars /\ WF_vars(GdcNext)

RsNext ==
    \/ reshuffle_begin /\ UNCHANGED <<gdcVars, itVars, decVars, miVars, rcVars, redVars, fhVars>>
    \/ reshuffle_stack /\ UNCHANGED <<gdcVars, itVars, decVars, miVars, rcVars, redVars, fhVars>>
    \/ reshuffle_return /\ UNCHANGED <<gdcVars, itVars, decVars, miVars, rcVars, redVars, fhVars>>
    \/ reshuffle_reshape /\ UNCHANGED <<gdcVars, itVars, decVars, miVars, rcVars, redVars, fhVars>>

InitReshuffle == RsInit /\ GdcIdle /\ ItIdle /\ DecIdle /\ MiIdle /\ RcIdle /\ RedIdle /\ FhIdle

SpecReshuffle == InitReshuffle /\ [][RsNext]_vars

ItNext ==
    \/ block_iterator_call /\ UNCHANGED <<gdcVars, rsVars, decVars, miVars, rcVars, redVars, fhVars>>
    \/ block_iterator_mask_error /\ UNCHANGED <<gdcVars, rsVars, decVars, miVars, rcVars, redVars, fhVars>>
    \/ block_iterator_next /\ UNCHANGED <<gdcVars, rsVars, decVars, miVars, rcVars, redVars, fhVars>>
    \/ block_iterator_stop /\ UNCHANGED <<gdcVars, rsVars, decVars, miVars, rcVars, redVars, fhVars>>

InitIterator == ItInit /\ GdcIdle /\ RsIdle /\ DecIdle /\ MiIdle /\ RcIdle /\ RedIdle /\ FhIdle

SpecIterator == InitIterator /\ [][ItNext]_vars

DecNext ==
    \/ decomposition_call /\ UNCHANGED <<gdcVars, rsVars, itVars, miVars, rcVars, redVars, fhVars>>
    \/ decomposition_normalize /\ UNCHANGED <<gdcVars, rsVars, itVars, miVars, rcVars, redVars, fhVars>>
    \/ decomposition_svd /\ UNCHANGED <<gdcVars, rsVars, itVars, miVars, rcVars, redVars, fhVars>>
    \/ decomposition_learn_block /\ UNCHANGED <<gdcVars, rsVars, itVars, miVars, rcVars, redVars, fhVars>>
    \/ decomposition_learn_end /\ UNCHANGED <<gdcVars, rsVars, itVars, miVars, rcVars, redVars, fhVars>>
    \/ decomposition_learn_interrupt /\ UNCHANGED <<gdcVars, rsVars, itVars, miVars, rcVars, redVars, fhVars>>
    \/ decomposition_external_failure /\ UNCHANGED <<gdcVars, rsVars, itVars, miVars, rcVars, redVars, fhVars>>
    \/ decomposition_extract /\ UNCHANGED <<gdcVars, rsVars, itVars, miVars, rcVars, redVars, fhVars>>
    \/ decomposition_project_block /\ UNCHANGED <<gdcVars, rsVars, itVars, miVars, rcVars, redVars, fhVars>>
    \/ decomposition_project_end /\ UNCHANGED <<gdcVars, rsVars, itVars, miVars, rcVars, redVars, fhVars>>
    \/ decomposition_project_interrupt /\ UNCHANGED <<gdcVars, rsVars, itVars, miVars, rcVars, redVars, fhVars>>
    \/ decomposition_reshuffle /\ UNCHANGED <<gdcVars, rsVars, itVars, miVars, rcVars, redVars, fhVars>>
    \/ decomposition_finally /\ UNCHANGED <<gdcVars, rsVars, itVars, miVars, rcVars, redVars, fhVars>>
    \/ decomposition_commit /\ UNCHANGED <<gdcVars, rsVars, itVars, miVars, rcVars, redVars, fhVars>>
    \/ decomposition_leave /\ UNCHANGED <<gdcVars, rsVars, itVars, miVars, rcVars, redVars, fhVars>>

InitDecomposition == DecInit /\ GdcIdle /\ RsIdle /\ ItIdle /\ MiIdle /\ RcIdle /\ RedIdle /\ FhIdle

SpecDecomposition == InitDecomposition /\ [][DecNext]_vars

MiNext ==
    \/ map_iterate_call /\ UNCHANGED <<gdcVars, rsVars, itVars, decVars, rcVars, redVars, fhVars>>
    \/ map_iterate_probe /\ UNCHANGED <<gdcVars, rsVars, itVars, decVars, rcVars, redVars, fhVars>>
    \/ map_iterate_map /\ UNCHANGED <<gdcVars, rsVars, itVars, decVars, rcVars, redVars, fhVars>>
    \/ map_iterate_reconcile /\ UNCHANGED <<gdcVars, rsVars, itVars, decVars, rcVars, redVars, fhVars>>

InitMapIterate == MiInit /\ GdcIdle /\ RsIdle /\ ItIdle /\ DecIdle /\ RcIdle /\ RedIdle /\ FhIdle

SpecMapIterate == InitMapIterate /\ [][MiNext]_vars

RcNext ==
    \/ make_lazy /\ UNCHANGED <<gdcVars, rsVars, itVars, decVars, miVars, redVars, fhVars>>
    \/ rechunk /\ UNCHANGED <<gdcVars, rsVars, itVars, decVars, miVars, redVars, fhVars>>

InitRechunk == RcInit /\ GdcIdle /\ RsIdle /\ ItIdle /\ DecIdle /\ MiIdle /\ RedIdle /\ FhIdle

SpecRechunk == InitRechunk /\ [][RcNext]_vars

RedNext ==
    \/ apply_function_on_data_and_remove_axis
           /\ UNCHANGED <<gdcVars, rsVars, itVars, decVars, miVars, rcVars, fhVars>>
    \/ diff /\ UNCHANGED <<gdcVars, rsVars, itVars, decVars, miVars, rcVars, fhVars>>
    \/ integrate_simpson /\ UNCHANGED <<gdcVars, rsVars, itVars, decVars, miVars, rcVars, fhVars>>
    \/ valuemax /\ UNCHANGED <<gdcVars, rsVars, itVars, decVars, miVars, rcVars, fhVars>>
    \/ valuemin /\ UNCHANGED <<gdcVars, rsVars, itVars, decVars, miVars, rcVars, fhVars>>
    \/ get_histogram /\ UNCHANGED <<gdcVars, rsVars, itVars, decVars, miVars, rcVars, fhVars>>

InitReduction == RedInit /\ GdcIdle /\ RsIdle /\ ItIdle /\ DecIdle /\ MiIdle /\ RcIdle /\ FhIdle

SpecReduction == InitReduction /\ [][RedNext]_vars

FhNext ==
    \/ compute_call /\ UNCHANGED <<gdcVars, rsVars, itVars, decVars, miVars, rcVars, redVars>>
    \/ compute_materialise /\ UNCHANGED <<gdcVars, rsVars, itVars, decVars, miVars, rcVars, redVars>>
    \/ compute_close_file /\ UNCHANGED <<gdcVars, rsVars, itVars, decVars, miVars, rcVars, redVars>>
    \/ compute_assign /\ UNCHANGED <<gdcVars, rsVars, itVars, decVars, miVars, rcVars, redVars>>
    \/ close_file_call /\ UNCHANGED <<gdcVars, rsVars, itVars, decVars, miVars, rcVars, redVars>>
    \/ close_file_close /\ UNCHANGED <<gdcVars, rsVars, itVars, decVars, miVars, rcVars, redVars>>

InitSharedFile ==
    FhInit /\ GdcIdle /\ RsIdle /\ ItIdle /\ DecIdle /\ MiIdle /\ RcIdle /\ RedIdle

SpecSharedFile == InitSharedFile /\ [][FhNext]_vars

(***************************************************************************)
(* Properties of the chunk planner.                                        *)
(***************************************************************************)
\* the element byte width the footprint is measured with
ElementBytes ==
    LET d == IF dtype_arg = <<>> THEN dc_itemsize ELSE dtype_arg[1]
    IN  IF d >= dc_itemsize THEN d ELSE dc_itemsize

\* the bytes of the largest chunk of the returned spec
LargestChunkBytes ==
    multiply([i \in 1..Len(gdc_chunks) |-> SeqMax(gdc_chunks[i])]) * ElementBytes

\* the halving loop ran at least once before the return
GdcHalved == gdc_sizes # Pick(dc_shape, gdc_indices)

\* C7: in the chunk spec _get_dask_chunks returns, in the normal and in the
\* degenerate branch, every must-keep-whole axis has exactly one chunk, whose
\* length is the full size of the axis.
C7_KeptAxesWhole ==
    gdc_returned =>
        /\ Len(gdc_chunks) = Len(dc_shape)
        /\ \A i \in need_axes : gdc_chunks[i] = <<dc_shape[i]>>

\* C7 witness: the degenerate branch returned for an array with kept axes
\* and a free axis longer than one element, cut into singleton chunks.
C7_Witness ==
    /\ gdc_pc = "returned_degenerate"
    /\ need_axes # {}
    /\ \E i \in (1..Len(dc_shape)) \ need_axes :
        dc_shape[i] > 1 /\ Len(gdc_chunks[i]) = dc_shape[i]

\* C8: whenever at least two must-keep-whole slices fit in 100 MiB, the
\* largest chunk of the returned spec (the largest chunk length of every
\* axis multiplied together, times the element byte width) is at most
\* 100 MiB.
C8_FootprintWithinBudget ==
    (gdc_pc = "returned" /\ num_that_fit >= 2) =>
        LargestChunkBytes <= BlockBudgetBytes

\* C8 witness: a return after the halving loop shrank a free axis, with more
\* than half of the budget used by the largest chunk.
C8_Witness ==
    /\ gdc_pc = "returned"
    /\ num_that_fit >= 2
    /\ GdcHalved
    /\ need_axes # {}
    /\ 2 * LargestChunkBytes > BlockBudgetBytes

(***************************************************************************)
(* Properties of the reshuffle.                                            *)
(***************************************************************************)
\* the array given to the reshuffle holds every navigation point, in block order
RsFullInput == rs_array = ScatteredLoadings(rs_nav_chunks, rs_output_dimension)

\* the reshuffle and the reshape that follows it came to an end
RsEnded == rs_pc \in {"done", "raised"}

\* C6: for every tuple of navigation chunk-length tuples, the rows of a
\* navigation-ordered array taken in block order and passed to
\* _reshuffle_mixed_blocks followed by reshape((-1, output_dimension)) come
\* out in the original flattened navigation order.
C6_ReshuffleRestoresOrder ==
    (RsEnded /\ RsFullInput) =>
        /\ rs_pc = "done"
        /\ rs_result = OrderedLoadings(rs_nav_chunks, rs_output_dimension)

\* the grids on which the reshuffle restores the order: a dimension with
\* several chunks has, before it, only dimensions with several chunks or of
\* length 1
RsOrderRestorable ==
    \A d \in 1..Len(rs_nav_chunks) :
        (Len(rs_nav_chunks[d]) = 1 /\ rs_nav_chunks[d][1] > 1) =>
            \A e \in (d + 1)..Len(rs_nav_chunks) : Len(rs_nav_chunks[e]) = 1

\* the reshuffle restores the order exactly on the restorable grids, and ends
\* with AttributeError on the others
RsOutcome ==
    (RsEnded /\ RsFullInput) =>
        IF RsOrderRestorable
        THEN /\ rs_pc = "done"
             /\ rs_result = OrderedLoadings(rs_nav_chunks, rs_output_dimension)
        ELSE rs_exc = "AttributeError"

\* the pass-by-pass run returns what the function computes in one go
RsStepwiseAgrees ==
    RsEnded =>
        LET r == reshuffle_and_reshape(rs_array, Len(rs_nav_chunks),
                                       rs_output_dimension, rs_nav_chunks)
        IN  IF rs_pc = "done" THEN r = rs_result ELSE r.kind = rs_exc

(***************************************************************************)
(* Properties of the block iterator.                                       *)
(***************************************************************************)
\* the place of a block index tuple in the cartesian product of the chunk
\* indices when the last navigation dimension varies fastest (counted from 0)
RECURSIVE LastFastestRank(_, _)
LastFastestRank(ind, counts) ==
    IF Len(ind) = 0 THEN 0
    ELSE ind[Len(ind)]
         + counts[Len(counts)]
           * LastFastestRank(SubSeq(ind, 1, Len(ind) - 1),
                             SubSeq(counts, 1, Len(counts) - 1))

\* the number of chunks along each navigation dimension
ItChunkCounts == [d \in 1..Len(it_nav_chunks) |-> Len(it_nav_chunks[d])]

ItUnmaskedNav == (0..(multiply(NavShape(it_nav_chunks)) - 1)) \ it_navigation_mask.val
ItUnmaskedSig == (0..(SeqSum(it_sig_chunks) - 1)) \ it_signal_mask.val

\* the navigation points of the block of a payload
ItBlockPointSet(payload) ==
    LET pts == BlockPoints(it_nav_chunks, payload.ind)
    IN  {pts[k] : k \in 1..Len(pts)}

\* C10: in flat mode every payload has one row per unmasked navigation point
\* of its block and one column per unmasked signal location, so the element
\* count over all payloads of a finished iteration is (unmasked navigation
\* points) x (unmasked signal points); a block with all its navigation points
\* masked yields a payload with zero rows.
C10_FlatPayloadsCoverUnmasked ==
    it_flat_signal =>
        /\ \A k \in 1..Len(it_yielded) :
            /\ Len(it_yielded[k].rows) =
                    Cardinality(ItBlockPointSet(it_yielded[k]) \cap ItUnmaskedNav)
            /\ Len(it_yielded[k].cols) = Cardinality(ItUnmaskedSig)
        /\ it_pc = "ended" =>
            SeqSum([k \in 1..Len(it_yielded) |->
                        Len(it_yielded[k].rows) * Len(it_yielded[k].cols)])
                = Cardinality(ItUnmaskedNav) * Cardinality(ItUnmaskedSig)

\* the flat payloads cover the unmasked points when the flattened signal axis
\* is one chunk
C10_WhenSignalInOneChunk ==
    Len(it_sig_chunks) = 1 => C10_FlatPayloadsCoverUnmasked

(***************************************************************************)
(* Properties of decomposition.                                            *)
(***************************************************************************)
\* the call in progress or just ended was made with an algorithm that needs
\* output_dimension and without one
DecDimensionMissing ==
    /\ dec_args.algorithm \in {"PCA", "ORPCA", "ORNMF"}
    /\ dec_args.output_dimension = <<>>

\* the call in progress or just ended was made with a name that is none of
\* the recognised ones
DecNameUnknown == dec_args.algorithm \notin {"SVD", "PCA", "ORPCA", "ORNMF"}

\* the signal is as the call found it
DecSignalAsBefore ==
    /\ dec_data = dec_snapshot.data
    /\ dec_is_unfolded = dec_snapshot.is_unfolded

\* C1: decomposition raises a configuration error when algorithm is 'PCA',
\* 'ORPCA' or 'ORNMF' (the alias 'ONMF' included) and output_dimension is
\* None, and when the algorithm name is not recognised; the error comes
\* before anything of the signal is materialized and before the working
\* array is captured, and the data reference and learning_results are as
\* before the call.
C1_ConfigurationErrorsBeforeData ==
    (dec_pc # "idle" /\ (DecDimensionMissing \/ DecNameUnknown)) =>
        /\ dec_pc = "raised"
        /\ dec_exc = IF DecDimensionMissing THEN ErrOutputDimension ELSE ErrAlgorithm
        /\ dec_computed = 0
        /\ ~dec_original_data.set
        /\ DecSignalAsBefore
        /\ dec_learning_results = dec_snapshot.learning_results

\* C1 witness: 'ORNMF' without output_dimension was refused on a signal that
\* holds the results of an earlier decomposition.
C1_Witness ==
    /\ dec_pc = "raised"
    /\ dec_exc = ErrOutputDimension
    /\ dec_args.algorithm = "ORNMF"
    /\ dec_learning_results.loadings = Earlier

\* C2: on every exit of decomposition reached after the working array was
\* captured, by a return or by an exception, self.data is the array
\* reference the call found and a signal the call unfolded is folded back.
C2_SignalRestoredOnExit ==
    (dec_ended /\ dec_original_data.set) =>
        /\ dec_data = dec_original_data.ref
        /\ DecSignalAsBefore

\* C2 witness: an SVD call that scaled the data and unfolded the signal was
\* left by an exception.
C2_Witness ==
    /\ dec_pc = "raised"
    /\ dec_original_data.set
    /\ dec_coeffs
    /\ dec_unfolded4decomposition = "True"
    /\ dec_exc = ErrMaskedSVD

\* C3: learning_results is overwritten wholesale: after a call that returned
\* every field holds what that call produced (a field no call ever wrote
\* aside), and a call that raised left every field as it was.
C3_ResultsOverwrittenWholesale ==
    /\ dec_pc = "returned" =>
        \A f \in LearningResultFields : dec_learning_results[f].by # "earlier"
    /\ dec_pc = "raised" =>
        dec_learning_results = dec_snapshot.learning_results

\* after a call that returned, every field but the estimator handle holds
\* what that call produced
DecResultsButHandleWritten ==
    dec_pc = "returned" =>
        \A f \in LearningResultFields \ {"object"} :
            dec_learning_results[f].by = "call"

\* C4: a KeyboardInterrupt delivered inside the learn loop or the project
\* loop never ends the call with an exception: failures of the estimators
\* and of the chunked-array engine aside, an interrupted call returns with
\* its results committed.
C4_InterruptedCallCommits ==
    (dec_interrupted # {} /\ dec_ended /\ dec_exc # ExternalFailure) =>
        /\ dec_pc = "returned"
        /\ dec_learning_results.loadings.by = "call"

\* the project loop was interrupted before its first block and nothing else
\* went wrong: post(H) of the empty list raised
DecInterruptedProjectRaised ==
    /\ dec_pc = "raised"
    /\ dec_interrupted = {"project"}
    /\ dec_pos = 0
    /\ dec_exc = ErrConcatenate

\* C5: the batch size decomposition computes, the adjusted num_chunks times
\* the element count of the smallest navigation block, is at least
\* output_dimension.
C5_BatchHoldsOutputDimension ==
    (dec_pc = "entered" /\ dec_args.output_dimension # <<>>) =>
        dec_blocksize >= dec_args.output_dimension[1]

\* the batch holds output_dimension samples whenever the smallest navigation
\* block alone does
C5_WhenBlockHoldsOutputDimension ==
    (/\ dec_pc = "entered"
     /\ dec_args.output_dimension # <<>>
     /\ min_blocksize(dec_nav_chunks) >= dec_args.output_dimension[1]) =>
        dec_blocksize >= dec_args.output_dimension[1]

(***************************************************************************)
(* Properties of the blockwise map.                                        *)
(***************************************************************************)
\* C11: a call of _map_iterate with ragged and inplace both set raises the
\* ValueError at once: no rechunk, no probing materialisation and no
\* map_blocks call is made, and the data reference and the axes of the
\* signal are what they were before the call.
C11_RaggedInplaceRaisesFirst ==
    [][(mi_pc = "idle" /\ mi_pc' # "idle" /\ mi_args'.ragged /\ mi_args'.inplace)
          => /\ mi_pc' = "raised"
             /\ mi_exc' = ErrRaggedInplace
             /\ mi_rechunks' = mi_rechunks
             /\ mi_probes' = mi_probes
             /\ mi_maps' = mi_maps
             /\ mi_data' = mi_data
             /\ mi_axes' = mi_axes]_vars

\* a ragged, inplace call on a signal whose chunks do not span the signal
\* dimensions has raised
C11_Witness ==
    /\ mi_pc = "raised"
    /\ mi_exc = ErrRaggedInplace
    /\ mi_args.ragged /\ mi_args.inplace
    /\ ~mi_spans
    /\ mi_rechunks = 0 /\ mi_probes = 0 /\ mi_maps = 0
    /\ mi_data.ref = "original"

\* the sizes and the identities of the axes of one role, in array order
RoleSizes(axes, navigate) ==
    [k \in 1..Len(RoleIndices(axes, navigate)) |-> axes[RoleIndices(axes, navigate)[k]].size]

RoleIds(axes, navigate) ==
    [k \in 1..Len(RoleIndices(axes, navigate)) |-> axes[RoleIndices(axes, navigate)[k]].id]

\* a map that is not ragged has returned a signal whose signal shape is not
\* the one the signal had
MiShapeChanged ==
    /\ mi_pc = "returned"
    /\ ~mi_args.ragged
    /\ mi_output_signal_size.val # RoleSizes(mi_before.axes, FALSE)

\* C12: after a map that is not ragged and changes the signal shape, in rank
\* or in the size of an axis, the axes of the returned signal agree with its
\* data: there is one axis per dimension of the data, every axis has the
\* size of its dimension, there are as many signal axes as the output shape
\* has dimensions and they have the output sizes; when the rank is the same
\* every signal axis is the descriptor it was; the navigation axes are the
\* ones the signal had, sizes included.
C12_AxesAgreeWithMappedData ==
    MiShapeChanged =>
        /\ Len(mi_sig.axes) = Len(mi_sig.data.shape)
        /\ \A i \in 1..Len(mi_sig.axes) : mi_sig.axes[i].size = mi_sig.data.shape[i]
        /\ signal_dimension(mi_sig.axes) = Len(mi_output_signal_size.val)
        /\ RoleSizes(mi_sig.axes, FALSE) = mi_output_signal_size.val
        /\ (Len(mi_output_signal_size.val) = signal_dimension(mi_before.axes)
               => RoleIds(mi_sig.axes, FALSE) = RoleIds(mi_before.axes, FALSE))
        /\ SelectSeq(mi_sig.axes, LAMBDA ax : ax.navigate)
               = SelectSeq(mi_before.axes, LAMBDA ax : ax.navigate)
        /\ RoleIndices(mi_sig.axes, TRUE) = RoleIndices(mi_before.axes, TRUE)

\* an inplace map has lowered the rank of the signal shape, and a map into a
\* copy has changed the size of one axis of two
C12_Witness ==
    /\ MiShapeChanged
    /\ mi_axes_changed
    /\ \/ /\ mi_args.inplace
          /\ Len(mi_output_signal_size.val) = 1
          /\ signal_dimension(mi_before.axes) = 2
          /\ mi_data.ref = "mapped"
       \/ /\ ~mi_args.inplace
          /\ Len(mi_output_signal_size.val) = 3
          /\ signal_dimension(mi_before.axes) = 2

(***************************************************************************)
(* Properties of rechunking.                                               *)
(***************************************************************************)
\* the last request was made on a dask array and repeats the request made
\* just before it on the signal that request left
RcRepeated ==
    /\ rc_repeat
    /\ rc_before.is_dask
    /\ rc_request.op = "rechunk" => rc_request.inplace

\* C13: a request made a second time on the result of the first, whether
\* _make_lazy with rechunk True or "dask_auto" or rechunk(nav_chunks,
\* sig_chunks), leaves the chunks as they are and calls no rechunk on the
\* array; and _make_lazy with rechunk False leaves a dask array untouched.
C13_RechunkIdempotent ==
    /\ RcRepeated => (rc_data = rc_before /\ ~rc_issued)
    /\ (rc_request.op = "make_lazy" /\ rc_request.rechunk = "False" /\ rc_before.is_dask)
           => (rc_data = rc_before /\ ~rc_issued)

\* what holds: planner-driven requests repeat without a rechunk, and
\* rechunk False leaves a dask array untouched
RcPlannerDrivenIdempotent ==
    (rc_request.op = "make_lazy" /\ rc_request.rechunk # "dask_auto" /\ rc_before.is_dask
        /\ (rc_repeat \/ rc_request.rechunk = "False"))
        => (rc_data = rc_before /\ ~rc_issued)

(***************************************************************************)
(* Properties of the reductions.                                           *)
(***************************************************************************)
\* the last operation computed a result and was given a destination
RedIntoOut ==
    /\ red_op.name # "none"
    /\ red_exc # ErrNonUniform
    /\ red_out_before.given

\* C14: an operation given a destination writes its result there only when
\* the shape of the destination's data is the shape of the result; otherwise
\* it raises the error that names both shapes and leaves the destination's
\* data as it was.
C14_OutWrittenOnlyOnShapeMatch ==
    RedIntoOut =>
        IF red_out_before.shape = red_new_shape
        THEN /\ red_pc = "returned"
             /\ red_out = [red_out_before EXCEPT !.ref = red_op.name]
        ELSE /\ red_pc = "raised"
             /\ red_exc = ErrOutShape(red_new_shape, red_out_before.shape)
             /\ red_out = red_out_before

\* what holds: the three operations that test the shape behave so
RedCheckedOperations ==
    (RedIntoOut /\ red_op.name \in {"reduce", "diff", "integrate_simpson"})
        => IF red_out_before.shape = red_new_shape
           THEN /\ red_pc = "returned"
                /\ red_out = [red_out_before EXCEPT !.ref = red_op.name]
           ELSE /\ red_pc = "raised"
                /\ red_exc = ErrOutShape(red_new_shape, red_out_before.shape)
                /\ red_out = red_out_before

(***************************************************************************)
(* Properties of the shared file.                                          *)
(***************************************************************************)
\* the outcomes of the operations that began when the file was closed: a
\* materialisation has raised and has not reached the assignment of the
\* data, a close_file has logged its warning and returned; no close_file
\* raises; and the file is closed as soon as one view's close_file or
\* compute(close_file=True) has returned, whatever the other views do
FhOutcomes ==
    \A v \in Views :
        /\ fh_views[v].started_closed => fh_views[v].pc \notin {"compute_close", "assign"}
        /\ (fh_views[v].last.op = "compute" /\ fh_views[v].last.started_closed)
              => (fh_views[v].last.outcome = "raised" /\ fh_views[v].lazy)
        /\ fh_views[v].last.op = "close_file" => fh_views[v].last.outcome = "returned"
        /\ (fh_views[v].last.op = "close_file" /\ fh_views[v].last.started_closed)
              => WarnClose \in fh_views[v].last.warnings
        /\ (\/ fh_views[v].last.op = "close_file"
            \/ (fh_views[v].last.op = "compute" /\ fh_views[v].last.outcome = "returned"
                   /\ fh_views[v].close_file /\ fh_views[v].pc = "rest"))
              => fh_handle = "closed"

\* C15: with the views sharing one file, in every interleaving of their
\* compute, compute(close_file=True) and close_file calls: a closed file is
\* closed in every later state; every materialisation begun by a view after
\* the file was closed fails; a close_file begun on the closed file logs the
\* warning and does not raise.
C15_ClosedFileStaysClosed ==
    [][/\ fh_handle = "closed" => fh_handle' = "closed"
       /\ FhOutcomes']_vars

\* one view has closed the file, then another has called close_file again
\* and been warned, and a view has failed to materialise
C15_Witness ==
    /\ fh_handle = "closed"
    /\ \E v, w \in Views :
          /\ v # w
          /\ fh_views[v].last = [op |-> "compute", outcome |-> "raised",
                                 warnings |-> {}, started_closed |-> TRUE]
          /\ fh_views[v].lazy
          /\ fh_views[w].last.op = "close_file"
          /\ fh_views[w].last.started_closed
          /\ fh_views[w].last.warnings = {WarnRetrieve, WarnClose}

(***************************************************************************)
(* Further properties of decomposition.                                    *)
(***************************************************************************)
\* an SVD was asked for with a navigation mask or a signal mask
DecMaskedSVD ==
    /\ dec_pc # "idle"
    /\ dec_args.algorithm = "SVD"
    /\ dec_args.navigation_mask.type # "None" \/ dec_args.signal_mask.type # "None"

\* C16: decomposition with algorithm 'SVD' and a mask raises the
\* not-implemented error at once, whatever the other options are: nothing of
\* the data is computed before the error and learning_results is as before
\* the call.
C16_MaskedSVDRaisesAtOnce ==
    DecMaskedSVD =>
        /\ dec_computed = 0
        /\ dec_learning_results = dec_snapshot.learning_results
        /\ dec_ended => (dec_pc = "raised" /\ dec_exc = ErrMaskedSVD)

\* what holds: without the normalization nothing is computed before the
\* error, and learning_results is never written by such a call
DecMaskedSVDWithoutNormalization ==
    DecMaskedSVD =>
        /\ dec_learning_results = dec_snapshot.learning_results
        /\ ~Truthy(dec_args.normalize_poissonian_noise) =>
              /\ dec_computed = 0
              /\ dec_ended => (dec_pc = "raised" /\ dec_exc = ErrMaskedSVD)

(***************************************************************************)
(* Further properties of the block iterator.                               *)
(***************************************************************************)
\* the generator has run with a mask that is neither a signal, a numpy
\* array nor a dask array
ItWrongMask ==
    /\ it_pc \notin {"idle", "created"}
    /\ it_signal_mask.type \in {"other", "list"}
          \/ it_navigation_mask.type \in {"other", "list"}

\* C17: a navigation mask or signal mask that is neither a signal, a numpy
\* array nor a dask array makes the block iterator raise a ValueError whose
\* message names the mask that was wrong and the type it had, before any
\* payload is yielded.
C17_WrongMaskTypeRaises ==
    ItWrongMask =>
        /\ it_pc = "raised"
        /\ it_yielded = <<>>
        /\ it_computed = 0
        /\ it_exc =
              IF it_signal_mask.type \in {"other", "list"}
              THEN "ValueError: signal_mask has to be a signal, numpy or dask array, but "
                       \o it_signal_mask.type \o " was given"
              ELSE "ValueError: navigation_mask has to be a signal, numpy or dask array, but "
                       \o it_navigation_mask.type \o " was given"

\* a list given as navigation mask, with an array as signal mask, was refused
C17_Witness ==
    /\ it_pc = "raised"
    /\ it_navigation_mask = ListMask
    /\ it_signal_mask.type = "ndarray"
    /\ it_exc = "ValueError: navigation_mask has to be a signal, numpy or dask array, but list was given"
    /\ it_yielded = <<>>

\* the bytes of one slice spanning every kept axis, from the inputs of the call
KeptSliceBytes ==
    multiply([i \in 1..Len(dc_shape) |->
                 IF i \in need_axes THEN dc_shape[i] ELSE 1]) * ElementBytes

\* C18: when fewer than two whole kept slices fit in the 100 MiB budget (in
\* particular when one kept slice alone exceeds it), the returned chunk spec
\* cuts every free axis into chunks of length 1, one per element, and gives
\* every kept axis a single chunk of the full size of the axis.
C18_DegenerateChunksSingletons ==
    (gdc_returned /\ BlockBudgetBytes \div KeptSliceBytes < 2) =>
        /\ Len(gdc_chunks) = Len(dc_shape)
        /\ \A i \in 1..Len(dc_shape) :
            IF i \in need_axes
            THEN gdc_chunks[i] = <<dc_shape[i]>>
            ELSE /\ Len(gdc_chunks[i]) = dc_shape[i]
                 /\ \A k \in 1..dc_shape[i] : gdc_chunks[i][k] = 1

\* C18 witness: a call returned for an array whose single kept slice alone
\* exceeds the budget, with a free axis of more than one element.
C18_Witness ==
    /\ gdc_returned
    /\ KeptSliceBytes > BlockBudgetBytes
    /\ \E i \in (1..Len(dc_shape)) \ need_axes : dc_shape[i] > 1

\* the phase a position of decomposition belongs to: normalize, learn (with
\* the reading of the results), reproject, reshuffle, the finally clause,
\* commit, and the end of the call
DecPhase(pc) ==
    CASE pc = "idle" -> 0
      [] pc = "entered" -> 1
      [] pc \in {"learn", "learned"} -> 2
      [] pc = "project" -> 3
      [] pc = "reshuffle" -> 4
      [] pc = "finally" -> 5
      [] pc = "commit" -> 6
      [] pc \in {"returned", "raised"} -> 7

\* the step calls the fit entry point of the estimator
DecFitCalled == dec_obj'.fits > dec_obj.fits
\* the step calls transform / project of the estimator
DecTransformCalled == Len(dec_H') > Len(dec_H)
\* the step runs the reshuffle of lines 1072-1081
DecReshuffleRuns == dec_pc = "reshuffle" /\ dec_pc' # "reshuffle"
\* the step writes learning_results
DecResultsWritten == ~dec_ended /\ dec_learning_results' # dec_learning_results

\* C19: within one call of decomposition the phases come in the order
\* normalize, learn, reproject, reshuffle, commit and none is entered twice:
\* a fit is called only in the learn phase, after the working array was
\* rescaled when normalization was requested and before any transform or
\* project call; the reshuffle runs on the concatenation of all collected
\* blocks when there was a reprojection; learning_results is written only in
\* the commit phase, with the working array restored to the original.
C19_PhasesInOrder ==
    [][/\ ~dec_ended => DecPhase(dec_pc') >= DecPhase(dec_pc)
       /\ DecFitCalled =>
            /\ dec_pc = "learn"
            /\ dec_H = <<>>
            /\ dec_args.normalize_poissonian_noise # "False" =>
                 /\ dec_coeffs
                 /\ dec_data = Append(dec_original_data.ref, "scaled")
       /\ DecTransformCalled =>
            /\ dec_pc = "project"
            /\ dec_obj' = dec_obj
       /\ (DecReshuffleRuns /\ dec_args.reproject) =>
            dec_results.loadings = <<post(dec_H), 0>>
       /\ DecResultsWritten =>
            /\ dec_pc = "commit"
            /\ dec_data = dec_original_data.ref
            /\ dec_original_data.set]_vars

\* C19 witness: a call that normalized, fitted, reprojected, reshuffled and
\* committed has returned.
C19_Witness ==
    /\ dec_pc = "returned"
    /\ dec_args.normalize_poissonian_noise # "False"
    /\ dec_coeffs
    /\ dec_obj.fits > 0
    /\ Len(dec_H) > 0
    /\ dec_learning_results.loadings.by = "call"
    /\ dec_learning_results.loadings.val[1].kind = "array"

\* the rows of the first n blocks the block iterator of the call yields,
\* in the order it yields them
RECURSIVE DecYieldedRows(_)
DecYieldedRows(n) ==
    IF n = 0 THEN <<>>
    ELSE DecYieldedRows(n - 1) \o
         FlatPayload(dec_nav_chunks, dec_sig_chunks, dec_args.navigation_mask,
                     dec_args.signal_mask, BlockIndices(dec_nav_chunks)[n]).rows

\* the rows of the blocks held in this_data
DecHeldRows == Flatten([k \in 1..Len(dec_this_data) |-> dec_this_data[k].rows])

\* the learn loop of a streaming estimator is running or has run to its
\* end, without an interrupt
DecLearnUninterrupted ==
    /\ dec_pc \in {"learn", "learned"}
    /\ dec_args.algorithm # "SVD"
    /\ "learn" \notin dec_interrupted

\* C20: in a learn phase of a streaming estimator that is not interrupted,
\* the blocks the block iterator yields are fitted exactly once and in the
\* order they were yielded, num_chunks consecutive blocks per fit; the
\* blocks left when the iterator ends (between 1 and num_chunks - 1 of them,
\* as a full batch is fitted at once) are fitted by one last call, and no
\* fit is called on zero blocks.
C20_BlocksFittedOnceInOrder ==
    DecLearnUninterrupted =>
        LET n == dec_args.num_chunks[1]
        IN  IF dec_pc = "learn"
            THEN /\ dec_obj.fits = dec_pos \div n
                 /\ Len(dec_this_data) = dec_pos % n
                 /\ dec_obj.rows \o DecHeldRows = DecYieldedRows(dec_pos)
            ELSE /\ dec_obj.fits = CeilDiv(dec_nblocks, n)
                 /\ dec_obj.rows = DecYieldedRows(dec_nblocks)

\* C20 witness: a learn loop ran to its end with batches of two blocks and a
\* last fit of the one block that was left.
C20_Witness ==
    /\ DecLearnUninterrupted
    /\ dec_pc = "learned"
    /\ dec_args.num_chunks[1] = 2
    /\ dec_nblocks = 3
    /\ dec_obj.fits = 2
    /\ Len(dec_this_data) = 1
    /\ Len(dec_obj.rows) > 2

\* the learn loop of a streaming estimator is running
DecLearnLoop == dec_pc = "learn" /\ dec_args.algorithm # "SVD"

\* C21: while the learn loop runs, a step materializes at most one
\* chunk-group, and it does so exactly when the loop asks the block iterator
\* for its next block; the loop holds fewer than num_chunks blocks between
\* two steps, a step adds at most one block to those held (so never more
\* than num_chunks are held), and the step in which the held blocks reach
\* num_chunks empties the list.
C21_OneBlockAtATimeBoundedHold ==
    [][DecLearnLoop =>
        LET n == dec_args.num_chunks[1]
        IN  /\ dec_computed' \in {dec_computed, dec_computed + 1}
            /\ dec_pos' \in {dec_pos, dec_pos + 1}
            /\ (dec_computed' = dec_computed + 1) <=> (dec_pos' = dec_pos + 1)
            /\ Len(dec_this_data) < n
            /\ Len(dec_this_data') <= Len(dec_this_data) + 1
            /\ Len(dec_this_data') < n
            /\ (Len(dec_this_data) = n - 1 /\ dec_pos' = dec_pos + 1
                    /\ dec_pc' = "learn") =>
                 dec_this_data' = <<>>]_vars

\* C21 witness: the learn loop, with batches of two blocks, has fitted and
\* emptied one batch and holds the third block.
C21_Witness ==
    /\ DecLearnLoop
    /\ dec_args.num_chunks[1] = 2
    /\ dec_pos = 3
    /\ dec_obj.fits = 1
    /\ Len(dec_this_data) = 1

\* the factors and the loadings committed by the call are the rescaled ones
DecCommittedRescaled ==
    /\ dec_learning_results.factors.val[3] = 1
    /\ dec_learning_results.loadings.val[2] = 1
\* the factors and the loadings committed by the call are as learned
DecCommittedUnscaled ==
    /\ dec_learning_results.factors.val[3] = 0
    /\ dec_learning_results.loadings.val[2] = 0

\* C22: a call that returned after the normalize phase rescaled the working
\* array (raG and rbH were computed) committed the factors and the loadings
\* rescaled by them; a call that returned without normalizing committed
\* them as learned.
C22_RescaledWhenNormalized ==
    dec_pc = "returned" =>
        IF dec_coeffs THEN DecCommittedRescaled ELSE DecCommittedUnscaled

\* what the code does: the results are rescaled exactly when
\* normalize_poissonian_noise is the object True
DecRescaledExactlyWhenTrue ==
    dec_pc = "returned" =>
        IF dec_args.normalize_poissonian_noise = "True"
        THEN DecCommittedRescaled ELSE DecCommittedUnscaled

\* what the reshuffle of line 1075 makes of the loadings of the call
DecReshuffleOutcome ==
    reshuffle_and_reshape(dec_results.loadings[1], Len(dec_nav_chunks),
                          dec_args.output_dimension[1], dec_nav_chunks).kind

\* the step runs the reshuffle of a streaming estimator, which fails
DecReshuffleFails ==
    /\ DecReshuffleRuns
    /\ dec_args.algorithm # "SVD"
    /\ DecReshuffleOutcome # "array"

\* C23: when the reshuffle of a streaming estimator cannot rebuild the
\* navigation order, whatever the reason, no exception is raised and the
\* loadings go on to the commit as they were, in block order.
C23_FailedReshuffleIsSilent ==
    [][DecReshuffleFails =>
        /\ dec_exc' = "none"
        /\ dec_results'.loadings = dec_results.loadings]_vars

\* what the code does: only a ValueError of the reshuffle is silenced
DecReshuffleValueErrorIsSilent ==
    [][(DecReshuffleFails /\ DecReshuffleOutcome = "ValueError") =>
        /\ dec_exc' = "none"
        /\ dec_results'.loadings = dec_results.loadings]_vars

\* the step leaves the reading of the results for the reproject phase or,
\* skipping it, for the reshuffle
DecReprojectDecided == dec_pc = "learned" /\ dec_pc' \in {"project", "reshuffle"}

\* the loadings the learn phase alone gives: those of svd, or those the
\* estimator hands out with finish()
DecLoadingsFromLearn ==
    IF dec_args.algorithm = "SVD"
    THEN dec_results'.loadings = dec_results.loadings /\ dec_results.loadings # <<>>
    ELSE dec_results'.loadings =
            <<LoadingRows(dec_obj.rows, dec_args.output_dimension[1]), 0>>

\* C24 as stated: the reproject phase runs exactly when the algorithm is
\* not SVD and the caller passed a true reproject; when it is skipped the
\* loadings are those of the learn phase; transform / project is called
\* only in a call that is not SVD and was given a true reproject.
C24_ReprojectAsRequested ==
    [][/\ DecReprojectDecided =>
            /\ (dec_pc' = "project") <=>
                 (dec_args.algorithm # "SVD" /\ dec_args.reproject_given)
            /\ dec_pc' = "reshuffle" => DecLoadingsFromLearn
       /\ DecTransformCalled =>
            (dec_args.algorithm # "SVD" /\ dec_args.reproject_given)]_vars

\* C24 amended: the reproject phase runs exactly when the algorithm is PCA
\* (whatever reproject the caller passed), or is ORPCA or ORNMF and the
\* caller passed a true reproject; it is always skipped for SVD, and for
\* ORPCA and ORNMF when the caller passed reproject=False; when it is
\* skipped the loadings are those of the learn phase.
C24_ReprojectForcedForPCA ==
    [][/\ DecReprojectDecided =>
            /\ (dec_pc' = "project") <=>
                 \/ dec_args.algorithm = "PCA"
                 \/ /\ dec_args.algorithm \in {"ORPCA", "ORNMF"}
                    /\ dec_args.reproject_given
            /\ dec_pc' = "reshuffle" => DecLoadingsFromLearn
       /\ DecTransformCalled =>
            \/ dec_args.algorithm = "PCA"
            \/ /\ dec_args.algorithm \in {"ORPCA", "ORNMF"}
               /\ dec_args.reproject_given]_vars

\* C24 witness: a PCA call that was given reproject=False is in its
\* reproject phase and has transformed a block.
C24_Witness ==
    /\ dec_pc = "project"
    /\ dec_args.algorithm = "PCA"
    /\ ~dec_args.reproject_given
    /\ Len(dec_H) > 0

\* the chunk lengths that occur in a chunk tuple
ChunkLengths(chunk_tuple) == {chunk_tuple[k] : k \in 1..Len(chunk_tuple)}

\* the sum of a chunk tuple, length by length
RECURSIVE SumByLength(_, _)
SumByLength(chunk_tuple, lengths) ==
    IF lengths = {} THEN 0
    ELSE LET v == CHOOSE v \in lengths : TRUE
         IN  v * Cardinality({k \in 1..Len(chunk_tuple) : chunk_tuple[k] = v})
             + SumByLength(chunk_tuple, lengths \ {v})

\* C25: in the chunk spec returned, along every dimension the chunk lengths
\* are positive and sum to the size of the dimension; after the halving
\* loop, along every free axis the chunk lengths differ by at most 1 and
\* none exceeds the size the halving left for that axis.
C25_ChunksCoverEvenly ==
    gdc_returned =>
        /\ Len(gdc_chunks) = Len(dc_shape)
        /\ \A i \in 1..Len(dc_shape) :
            /\ \A v \in ChunkLengths(gdc_chunks[i]) : v > 0
            /\ SumByLength(gdc_chunks[i], ChunkLengths(gdc_chunks[i])) = dc_shape[i]
        /\ gdc_pc = "returned" =>
            \A k \in 1..Len(gdc_indices) :
                LET lengths == ChunkLengths(gdc_chunks[gdc_indices[k]])
                IN  /\ \A v, w \in lengths : v - w <= 1
                    /\ \A v \in lengths : v <= gdc_sizes[k]

\* C25 witness: the halving loop shrank a free axis to a size that does not
\* divide the axis, which was split into chunks of two different lengths.
C25_Witness ==
    /\ gdc_pc = "returned"
    /\ \E k \in 1..Len(gdc_indices) :
        /\ gdc_sizes[k] < dc_shape[gdc_indices[k]]
        /\ dc_shape[gdc_indices[k]] % gdc_sizes[k] # 0
        /\ Cardinality(ChunkLengths(gdc_chunks[gdc_indices[k]])) = 2

\* the step is a pass of the halving loop that halves a size
GdcHalveStep == gdc_pc = "halving" /\ gdc_sizes' # gdc_sizes

\* C26: the halving loop, entered with a budget of at least two kept slices,
\* ends (also when there is no free axis); each pass changes one free-axis
\* size only, a largest one, and makes it strictly smaller; no free-axis
\* size ever falls below 1, so the split divides by no zero.
C26_HalvingTerminates ==
    /\ (gdc_pc = "halving") ~> (gdc_pc = "returned")
    /\ [](gdc_pc = "halving" => num_that_fit >= 2)
    /\ [](gdc_pc \in {"halving", "returned"} =>
            \A k \in 1..Len(gdc_sizes) : gdc_sizes[k] >= 1)
    /\ [][GdcHalveStep =>
            \E i \in 1..Len(gdc_sizes) :
                /\ \A j \in 1..Len(gdc_sizes) : gdc_sizes[j] <= gdc_sizes[i]
                /\ gdc_sizes'[i] < gdc_sizes[i]
                /\ \A j \in 1..Len(gdc_sizes) \ {i} :
                    gdc_sizes'[j] = gdc_sizes[j]]_vars

\* C26 witness: a call returned after the halving loop ran with two free
\* axes of the same length and halved both.
C26_Witness ==
    /\ gdc_pc = "returned"
    /\ Len(gdc_sizes) = 2
    /\ dc_shape[gdc_indices[1]] = dc_shape[gdc_indices[2]]
    /\ \A k \in 1..2 : gdc_sizes[k] < dc_shape[gdc_indices[k]]

====
